---- MODULE Spec2Model ----
(***************************************************************************)
(* docast-util-from-docs: Location (point/offset conversion), Lexer,       *)
(* Parser and the markdown bridge, modelled from the TypeScript sources.   *)
(*                                                                         *)
(* A document is a sequence of UTF-16 code units, each a one-character     *)
(* string.  "H" and "L" stand for a high and a low surrogate: String       *)
(* indices, String.length and slice() count code units, while for..of      *)
(* iterates code points, so "H" followed by "L" is one iterated character. *)
(***************************************************************************)
EXTENDS Integers, Sequences, FiniteSets, TLC

\* Longest document of the Location specification, in code units.
MaxLen == 3

VARIABLES
  document,   \* Location.document: the indexed text
  from,       \* Location.from: point before the first character
  whole,      \* the enclosing document the indexed text was sliced from
  op,         \* last Location call: "new", "point" or "offset"
  argOffset,  \* argument of the last point() call (integer part)
  argFrac,    \* TRUE when the last point() argument was not an integer
  argPoint,   \* argument of the last offset() call
  ret,        \* value returned by the last call
  options,    \* Parser/Lexer options (multiline, codeblocks)
  index,      \* Reader.position: cursor of the lexer's reader
  comment,    \* Lexer.comment: inside-comment flag
  tokens,     \* Lexer.tokens: the kept tokens, in order, each one's `next`
              \* being the token after it
  pc,         \* where the fromDocs call is: "idle", "lex", "parse",
              \* "transform", "done" or "failed"
  tree,       \* the docast root built by the parser
  match,      \* comment-search tokenizer: number of the comment match being
              \* tokenized, 0 before the first
  reader,     \* comment-search tokenizer: index of the comment reader
  cursor,     \* Parser.root: the candidate of rep(comment) and the transform
              \* that come next, the number of candidates, and whether the
              \* tokens end after the longest candidate
  invoked     \* the transforms invoked so far: 0 for the built-in one, i for
              \* options.transforms[i - 1]

locVars == <<document, from, whole, op, argOffset, argFrac, argPoint, ret>>

docVars == <<options, index, comment, tokens, pc, tree, match, reader, cursor, invoked>>

vars == <<locVars, docVars>>

----------------------------------------------------------------------------
(* Sequences helpers *)

Max(a, b) == IF a >= b THEN a ELSE b

Min(a, b) == IF a <= b THEN a ELSE b

\* String.prototype.slice(start) for 0 <= start, in code units (0-based).
slice(s, start) == SubSeq(s, Min(start, Len(s)) + 1, Len(s))

\* All sequences over S of length 0..n.
SeqsUpTo(S, n) == UNION {[1..k -> S] : k \in 0..n}

----------------------------------------------------------------------------
(* Location: src/src/location.ts *)

LocUnits == {"a", "\n", "\r", "H", "L"}

\* The characters `for (const char of s)` yields: code points, a surrogate
\* pair being one character and a lone surrogate a character of its own.
RECURSIVE chars(_)
chars(s) ==
  IF s = <<>> THEN <<>>
  ELSE IF Len(s) >= 2 /\ s[1] = "H" /\ s[2] = "L"
       THEN <<"HL">> \o chars(SubSeq(s, 3, Len(s)))
       ELSE <<s[1]>> \o chars(Tail(s))

\* /[\n\r]/.test(char)
isLineEnding(char) == char \in {"\n", "\r"}

DefaultFrom == [line |-> 1, column |-> 1, offset |-> 0]

\* One step of the loop body of #pt when the check failed on `pt`.
advance(pt, char) ==
  IF isLineEnding(char)
  THEN [line |-> pt.line + 1, column |-> 1, offset |-> pt.offset + 1]
  ELSE [line |-> pt.line, column |-> pt.column + 1, offset |-> pt.offset + 1]

\* The points #pt hands to `check`, in order: one before each character of
\* document + '\n'.  The point reached after the last character is never
\* checked.
RECURSIVE ptFrom(_, _)
ptFrom(cs, pt) ==
  IF cs = <<>> THEN <<>>
  ELSE <<pt>> \o ptFrom(Tail(cs), advance(pt, cs[1]))

pt(doc, frm) == ptFrom(chars(doc \o <<"\n">>), frm)

\* First index of `pts` at or after i satisfying the test, 0 when none.
RECURSIVE firstOffset(_, _, _)
firstOffset(pts, i, offset) ==
  IF i > Len(pts) THEN 0
  ELSE IF pts[i].offset = offset THEN i
  ELSE firstOffset(pts, i + 1, offset)

RECURSIVE firstLineColumn(_, _, _, _)
firstLineColumn(pts, i, line, column) ==
  IF i > Len(pts) THEN 0
  ELSE IF pts[i].line = line /\ pts[i].column = column THEN i
  ELSE firstLineColumn(pts, i + 1, line, column)

\* Location.point(offset).  The argument is the number offset + 1/2 when
\* frac is TRUE; `pt.offset === offset` is then false for every pt.
point(doc, frm, offset, frac) ==
  LET pts == pt(doc, frm)
      i   == IF frac THEN 0 ELSE firstOffset(pts, 1, offset)
  IN IF i = 0 THEN [line |-> -1, column |-> -1, offset |-> offset]
     ELSE pts[i]

\* Location.offset(point)
offset(doc, frm, p) ==
  LET pts == pt(doc, frm)
      i   == firstLineColumn(pts, 1, p.line, p.column)
  IN IF i = 0 THEN -1 ELSE pts[i].offset

----------------------------------------------------------------------------
(* Location specification: a Location over a document, or over a slice of  *)
(* it with `from` the point of the slice's start, answering calls.         *)

LocDocs == SeqsUpTo(LocUnits, MaxLen)

NoPoint == [line |-> 0, column |-> 0]

NoTree == [type |-> "none", children |-> <<>>]

\* Parser.root has not been entered.
NoCursor == [candidate |-> 0, transform |-> 0, of |-> 0, eof |-> FALSE]

\* The variables of a fromDocs call while only a Location is exercised.
\* options.codeblocks as passed to fromDocs: not given, or given as the
\* list flat(sift([codeblocks])) of its entries, each a string or a regular
\* expression of literal characters.
Unset == [set |-> FALSE, checks |-> <<>>]

DocIdle ==
  /\ options = [multiline |-> FALSE, codeblocks |-> Unset, transforms |-> <<>>]
  /\ match = 0
  /\ reader = 0
  /\ cursor = NoCursor
  /\ invoked = <<>>
  /\ index = 0
  /\ comment = FALSE
  /\ tokens = <<>>
  /\ pc = "idle"
  /\ tree = NoTree

LocInit ==
  /\ DocIdle
  /\ whole \in LocDocs
  /\ document = whole
  /\ from = DefaultFrom
  /\ op = "new"
  /\ argOffset = 0
  /\ argFrac = FALSE
  /\ argPoint = NoPoint
  /\ ret = 0

\* new Location(whole.slice(o), point_whole(o)): index a slice of the
\* enclosing document (src/src/index.ts:60-73, the snippet sample).
LocNewRelative ==
  /\ op = "new"
  /\ from = DefaultFrom
  /\ \E o \in 1..Len(whole) :
       LET P == point(whole, DefaultFrom, o, FALSE) IN
       /\ P.line >= 1
       /\ document' = slice(whole, o)
       /\ from' = P
  /\ UNCHANGED <<whole, op, argOffset, argFrac, argPoint, ret, docVars>>

LocPoint ==
  /\ \E o \in -1..(Len(whole) + 1), f \in BOOLEAN :
       /\ op' = "point"
       /\ argOffset' = o
       /\ argFrac' = f
       /\ ret' = point(document, from, o, f)
  /\ argPoint' = NoPoint
  /\ UNCHANGED <<document, from, whole, docVars>>

LocOffset ==
  /\ \E l \in 0..(Len(whole) + 2), c \in 0..(Len(whole) + 2) :
       /\ op' = "offset"
       /\ argPoint' = [line |-> l, column |-> c]
       /\ ret' = offset(document, from, [line |-> l, column |-> c])
  /\ argOffset' = 0
  /\ argFrac' = FALSE
  /\ UNCHANGED <<document, from, whole, docVars>>

LocNext == LocNewRelative \/ LocPoint \/ LocOffset

LocSpec == LocInit /\ [][LocNext]_vars

----------------------------------------------------------------------------
(* What the Location claims say, stated on code units without the scan.    *)

\* Number of '\n' and '\r' code units among the first o units of doc.
RECURSIVE lineEndingsBefore(_, _)
lineEndingsBefore(doc, o) ==
  IF o = 0 THEN 0
  ELSE lineEndingsBefore(doc, o - 1) + (IF isLineEnding(doc[o]) THEN 1 ELSE 0)

\* Number of code units between the last line ending before o and o.
RECURSIVE unitsSinceLineEnding(_, _)
unitsSinceLineEnding(doc, o) ==
  IF o = 0 \/ isLineEnding(doc[o]) THEN 0
  ELSE 1 + unitsSinceLineEnding(doc, o - 1)

unitPoint(doc, o) ==
  [line   |-> 1 + lineEndingsBefore(doc, o),
   column |-> 1 + unitsSinceLineEnding(doc, o),
   offset |-> o]

isSentinel(p) == p.line = -1 /\ p.column = -1

\* A place of doc has line l and column c: a code unit, or the end of the
\* document.
hasPlace(doc, l, c) ==
  \E o \in 0..Len(doc) :
    unitPoint(doc, o).line = l /\ unitPoint(doc, o).column = c

atOrAfter(p, q) == p.line > q.line \/ (p.line = q.line /\ p.column >= q.column)

absolute == from = DefaultFrom

validOffsetCall == op = "point" /\ ~argFrac /\ argOffset \in 0..Len(document)

\* C1: with the default `from`, offset(point(o)) = o for every integer o in
\* [0, length(document)], and point(offset(p)) = p for every valid point p
\* that point returned.
C1_RoundTrip ==
  (absolute /\ validOffsetCall) =>
    /\ offset(document, from, ret) = argOffset
    /\ (~isSentinel(ret) =>
          point(document, from, offset(document, from, ret), FALSE) = ret)

\* C2: point(o) is the sentinel {line: -1, column: -1, offset: o} exactly
\* when o is negative, greater than the document length or not an integer;
\* offset(p) is -1 exactly when p.line < 1, p.column < 1, p.line exceeds the
\* number of lines or no place of that line has column p.column.
C2_Sentinels ==
  absolute =>
    /\ op = "point" =>
         /\ ret.offset = argOffset
         /\ isSentinel(ret) <=>
              (argOffset < 0 \/ argOffset > Len(document) \/ argFrac)
    /\ op = "offset" =>
         (ret = -1 <=>
            \/ argPoint.line < 1
            \/ argPoint.column < 1
            \/ argPoint.line > 1 + lineEndingsBefore(document, Len(document))
            \/ ~hasPlace(document, argPoint.line, argPoint.column))

\* C3: for every integer o in [0, length(document)] counted in UTF-16 code
\* units, point(o) is valid, its line is 1 plus the number of '\n' and '\r'
\* before o and its column 1 plus the number of code units since the last
\* of them.
C3_PointCountsCodeUnits ==
  (absolute /\ validOffsetCall) => ret = unitPoint(document, argOffset)

\* C4: a Location over the slice whole[o..] with from = point_whole(o)
\* answers point(x) as the Location over the whole document does for every
\* x in [o, length(whole)], and offset(p) likewise for every p at or after
\* `from`.
C4_FromTranslation ==
  /\ (op = "point" /\ ~argFrac /\ argOffset \in from.offset..Len(whole)) =>
       ret = point(whole, DefaultFrom, argOffset, FALSE)
  /\ (op = "offset" /\ atOrAfter(argPoint, from)) =>
       ret = offset(whole, DefaultFrom, argPoint)

\* The four statements on documents without surrogate code units.
noSurrogates == \A i \in 1..Len(whole) : whole[i] \notin {"H", "L"}

LocationOnBmp ==
  noSurrogates =>
    C1_RoundTrip /\ C2_Sentinels /\ C3_PointCountsCodeUnits /\ C4_FromTranslation

----------------------------------------------------------------------------
(* Lexer: src/unnamed/part_013 (rules, enter, exit, tokenize, tokenizeMatch) *)

\* \s and \w on the characters documents are built from.
isSpace(c) == c \in {" ", "\t", "\n", "\r"}

isWord(c) == c \in {"a", "b", "c", "d", "e", "l", "m", "n", "p", "x"}

\* t[i], or a value no test accepts past the end of t.
at(t, i) == IF i >= 1 /\ i <= Len(t) THEN t[i] ELSE "<none>"

\* \b between t[k] and t[k + 1].
wordBoundary(t, k) == isWord(at(t, k)) # isWord(at(t, k + 1))

SetMin(S) == CHOOSE x \in S : \A y \in S : x <= y

\* Each rule is a regular expression anchored at the start of t, the text
\* from the reader's index on (Reader.peekMatch); the value is the length of
\* the match, 0 when there is none.

\* An opener rule that never takes the option into account.
openerDouble(t, multiline) ==
  IF at(t, 1) = "/" /\ at(t, 2) = "*" /\ at(t, 3) = "*" THEN 3 ELSE 0

\* /^\/\*{2}/, or /^\/\*{1,2}/ with options.multiline
opener(t, multiline) ==
  IF at(t, 1) = "/" /\ at(t, 2) = "*" /\ at(t, 3) = "*" THEN 3
  ELSE IF multiline /\ at(t, 1) = "/" /\ at(t, 2) = "*" THEN 2
  ELSE 0

\* Length of the run of non-whitespace characters of t starting at i.
RECURSIVE nonSpaceRun(_, _)
nonSpaceRun(t, i) ==
  IF i > Len(t) \/ isSpace(t[i]) THEN 0 ELSE 1 + nonSpaceRun(t, i + 1)

\* /^@\b\S+/
tag(t) ==
  IF at(t, 1) = "@" /\ isWord(at(t, 2)) THEN 1 + nonSpaceRun(t, 2) ELSE 0

\* /^{[^@].*?}?}/s
typeExpression(t) ==
  LET J == {j \in 3..Len(t) : t[j] = "}"} IN
  IF at(t, 1) = "{" /\ Len(t) >= 2 /\ at(t, 2) # "@" /\ J # {}
  THEN IF at(t, SetMin(J) + 1) = "}" THEN SetMin(J) + 1 ELSE SetMin(J)
  ELSE 0

\* /^\*\//
closer(t) == IF at(t, 1) = "*" /\ at(t, 2) = "/" THEN 2 ELSE 0

\* /^\*/
delimiter(t) == IF at(t, 1) = "*" THEN 1 ELSE 0

\* /^\s/
whitespace(t) == IF isSpace(at(t, 1)) THEN 1 ELSE 0

\* (?=(?:[\t\n\r ]*\*\/)) at position p of t
closerAhead(t, p) ==
  \E q \in p..Len(t) :
    /\ \A m \in p..(q - 1) : isSpace(t[m])
    /\ at(t, q) = "*" /\ at(t, q + 1) = "/"

\* (?=(?:[\t\n\r *]*\*[\t ]*(?<!{)@\b\S+)) at position p of t
tagAhead(t, p) ==
  \E m \in p..Len(t) : \E k \in (m + 1)..Len(t) :
    /\ \A x \in p..(m - 1) : isSpace(t[x]) \/ t[x] = "*"
    /\ t[m] = "*"
    /\ \A x \in (m + 1)..(k - 1) : t[x] \in {"\t", " "}
    /\ at(t, k - 1) # "{"
    /\ t[k] = "@" /\ isWord(at(t, k + 1))

\* (?!(?:\*\/)|(?:\*\s)|(?:@\S+\b)|(?:{[^@].*?})) at the start of t
notMarkdownStart(t) ==
  \/ at(t, 1) = "*" /\ at(t, 2) = "/"
  \/ at(t, 1) = "*" /\ isSpace(at(t, 2))
  \/ /\ at(t, 1) = "@"
     /\ \E k \in 2..Len(t) :
          (\A m \in 2..k : ~isSpace(t[m])) /\ wordBoundary(t, k)
  \/ /\ at(t, 1) = "{" /\ Len(t) >= 2 /\ at(t, 2) # "@"
     /\ \E j \in 3..Len(t) : t[j] = "}"

\* /^(?!...)\S.+?(?=...)/s: the shortest run of two or more characters
\* that ends where a closer or a line-leading tag lies ahead.
markdown(t) ==
  LET L == {n \in 2..Len(t) : closerAhead(t, n + 1) \/ tagAhead(t, n + 1)} IN
  IF Len(t) >= 1 /\ ~isSpace(t[1]) /\ ~notMarkdownStart(t) /\ L # {}
  THEN SetMin(L)
  ELSE 0

\* A lexer that keeps the tokens of every rule.
rulesKeepAll ==
  << [keep |-> TRUE, kind |-> "opener"],
     [keep |-> TRUE, kind |-> "tag"],
     [keep |-> TRUE, kind |-> "typeExpression"],
     [keep |-> TRUE, kind |-> "closer"],
     [keep |-> TRUE, kind |-> "delimiter"],
     [keep |-> TRUE, kind |-> "whitespace"],
     [keep |-> TRUE, kind |-> "markdown"] >>

\* Lexer.rules: [keep, kind] in priority order.
rules ==
  << [keep |-> TRUE,  kind |-> "opener"],
     [keep |-> TRUE,  kind |-> "tag"],
     [keep |-> TRUE,  kind |-> "typeExpression"],
     [keep |-> TRUE,  kind |-> "closer"],
     [keep |-> FALSE, kind |-> "delimiter"],
     [keep |-> FALSE, kind |-> "whitespace"],
     [keep |-> TRUE,  kind |-> "markdown"] >>

\* Reader.peekMatch(rule) for the rule of the given kind.
peekMatch(kind, t, multiline) ==
  CASE kind = "opener"         -> opener(t, multiline)
    [] kind = "tag"            -> tag(t)
    [] kind = "typeExpression" -> typeExpression(t)
    [] kind = "closer"         -> closer(t)
    [] kind = "delimiter"      -> delimiter(t)
    [] kind = "whitespace"     -> whitespace(t)
    [] kind = "markdown"       -> markdown(t)

\* Lexer.now(): reader.point(reader.start.offset + reader.index)
now(doc, frm, i) == point(doc, frm, frm.offset + i, FALSE)

\* A lexer that stays inside the comment when it exits a closer.
tokenizeMatchNoExit(doc, frm, st, kind, n, keep) ==
  [index    |-> st.index + n,
   comment  |-> IF keep /\ kind = "opener" THEN TRUE ELSE st.comment,
   tokens   |-> IF keep
                THEN Append(st.tokens,
                            [kind  |-> kind,
                             text  |-> SubSeq(doc, st.index + 1, st.index + n),
                             start |-> point(doc, frm, frm.offset + st.index, FALSE),
                             end   |-> point(doc, frm, frm.offset + st.index + n, FALSE)])
                ELSE st.tokens,
   consumed |-> TRUE]

\* Lexer.tokenizeMatch(kind, chars, keep) on the lexer state st =
\* [index, comment, tokens, consumed]: enter the token before the first
\* character, consume the n characters, exit it after the last.
tokenizeMatch(doc, frm, st, kind, n, keep) ==
  [index    |-> st.index + n,
   comment  |-> IF keep /\ kind = "opener" THEN TRUE
                ELSE IF keep /\ kind = "closer" THEN FALSE
                ELSE st.comment,
   tokens   |-> IF keep
                THEN Append(st.tokens,
                            [kind  |-> kind,
                             text  |-> SubSeq(doc, st.index + 1, st.index + n),
                             start |-> now(doc, frm, st.index),
                             end   |-> now(doc, frm, st.index + n)])
                ELSE st.tokens,
   consumed |-> TRUE]

\* A lexer whose rules all apply outside a comment too.
applicableAnywhere(kind, inComment) == TRUE

\* match && (kind === kinds.opener || this.comment): outside a comment only
\* the opener rule applies.
applicable(kind, inComment) == kind = "opener" \/ inComment

\* The body of `for (const [keep, rule, kind] of this.rules)` for the rules
\* r..7: every rule is tried in turn at the index the rules before it left.
RECURSIVE applyRules(_, _, _, _, _)
applyRules(doc, frm, multiline, st, r) ==
  IF r > Len(rules) THEN st
  ELSE LET kind == rules[r].kind
           n    == peekMatch(kind, slice(doc, st.index), multiline)
       IN IF n > 0 /\ applicable(kind, st.comment)
          THEN applyRules(doc, frm, multiline,
                          tokenizeMatch(doc, frm, st, kind, n, rules[r].keep),
                          r + 1)
          ELSE applyRules(doc, frm, multiline, st, r + 1)

\* One iteration of `while (!this.reader.eof)` in Lexer.tokenize.
tokenizeStep(doc, frm, multiline, st) ==
  LET after == applyRules(doc, frm, multiline,
                          [st EXCEPT !.consumed = FALSE], 1)
  IN IF after.consumed THEN after
     ELSE [after EXCEPT !.index = after.index + 1]

----------------------------------------------------------------------------
(* The markdown engine (mdast-util-from-markdown), as far as applyMarkdown  *)
(* relies on it: the flow constructs that the documents of this model can   *)
(* hold, which are paragraphs, blank lines and backtick-fenced code.  Nodes *)
(* carry markdown-local lines and columns.                                  *)

\* The code unit of the backtick character.
bq == "bq"

Node(type, value, children, start, end) ==
  [type |-> type, value |-> value, children |-> children,
   position |-> [start |-> start, end |-> end],
   blank |-> FALSE, hard |-> FALSE, name |-> <<>>]

\* The lines of s as [text, eol] records, eol being the line ending that
\* follows the text (empty after the last line).  With crlf a "\r" "\n"
\* pair is one line ending (markdown); without it each of the two ends a
\* line (the `m` flag of a JavaScript regular expression, and Location).
RECURSIVE linesOf(_, _)
linesOf(s, crlf) ==
  IF \A i \in 1..Len(s) : s[i] \notin {"\n", "\r"}
  THEN << [text |-> s, eol |-> <<>>] >>
  ELSE LET i == SetMin({j \in 1..Len(s) : s[j] \in {"\n", "\r"}})
           n == IF crlf /\ s[i] = "\r" /\ at(s, i + 1) = "\n" THEN 2 ELSE 1
       IN << [text |-> SubSeq(s, 1, i - 1), eol |-> SubSeq(s, i, i + n - 1)] >>
          \o linesOf(SubSeq(s, i + n, Len(s)), crlf)

\* The lines put together again, line endings included.
RECURSIVE joinLines(_)
joinLines(ls) ==
  IF ls = <<>> THEN <<>>
  ELSE ls[1].text \o ls[1].eol \o joinLines(Tail(ls))

\* The lines i..j put together, without the line ending of line j.
joinRange(ls, i, j) ==
  IF i > j THEN <<>>
  ELSE joinLines(SubSeq(ls, i, j - 1)) \o ls[j].text

isBlankLine(l) == \A i \in 1..Len(l) : l[i] \in {" ", "\t"}

\* Length of the run of backticks at the start of line l.
RECURSIVE fenceRun(_, _)
fenceRun(l, i) == IF at(l, i) = bq THEN 1 + fenceRun(l, i + 1) ELSE 0

\* A line that opens fenced code: three or more backticks, and no backtick
\* in the info string after them.
opensFence(l) ==
  /\ fenceRun(l, 1) >= 3
  /\ \A i \in (fenceRun(l, 1) + 1)..Len(l) : l[i] # bq

\* A line that closes a fence of n backticks.
closesFence(l, n) ==
  /\ fenceRun(l, 1) >= n
  /\ \A i \in (fenceRun(l, 1) + 1)..Len(l) : l[i] \in {" ", "\t"}

\* l without its leading and trailing spaces and tabs.
RECURSIVE trimLine(_)
trimLine(l) ==
  IF l = <<>> THEN l
  ELSE IF l[1] \in {" ", "\t"} THEN trimLine(Tail(l))
  ELSE IF l[Len(l)] \in {" ", "\t"} THEN trimLine(SubSeq(l, 1, Len(l) - 1))
  ELSE l

RECURSIVE indentOf(_)
indentOf(l) ==
  IF l # <<>> /\ l[1] \in {" ", "\t"} THEN 1 + indentOf(Tail(l)) ELSE 0

\* Column just after the last character of l that is not a space or tab.
RECURSIVE contentEnd(_)
contentEnd(l) ==
  IF l # <<>> /\ l[Len(l)] \in {" ", "\t"}
  THEN contentEnd(SubSeq(l, 1, Len(l) - 1))
  ELSE Len(l) + 1

\* A line that starts a bullet list item with text: `-`, a space or tab,
\* then something that is not blank.
isItem(l) ==
  /\ at(l, 1) = "-"
  /\ at(l, 2) \in {" ", "\t"}
  /\ ~isBlankLine(SubSeq(l, 3, Len(l)))

\* Last line of the paragraph that starts at line i: the lines after it
\* continue it until a blank line, a fence or a list item.
RECURSIVE paragraphEnd(_, _)
paragraphEnd(ls, i) ==
  IF i + 1 > Len(ls) THEN i
  ELSE IF \/ isBlankLine(ls[i + 1].text)
          \/ opensFence(ls[i + 1].text)
          \/ isItem(ls[i + 1].text)
  THEN i
  ELSE paragraphEnd(ls, i + 1)

\* Last line of the list that starts with the item at line i.
RECURSIVE listEnd(_, _)
listEnd(ls, i) ==
  IF paragraphEnd(ls, i) + 1 <= Len(ls) /\ isItem(ls[paragraphEnd(ls, i) + 1].text)
  THEN listEnd(ls, paragraphEnd(ls, i) + 1)
  ELSE paragraphEnd(ls, i)

\* The line of an item with its marker blanked: the text of the item.
itemLines(ls, i) ==
  [ls EXCEPT ![i].text = <<" ", " ">> \o SubSeq(ls[i].text, 3, Len(ls[i].text))]

\* Line that closes the fence of n backticks opened before line i, or
\* Len(ls) + 1 when the fence runs to the end of the text.
RECURSIVE fenceEnd(_, _, _)
fenceEnd(ls, i, n) ==
  IF i > Len(ls) THEN i
  ELSE IF closesFence(ls[i].text, n) THEN i
  ELSE fenceEnd(ls, i + 1, n)

\* lineEndingBlank: the line ending of a blank line enters a break
blankBreak(ls, i) ==
  [Node("break", <<>>, <<>>,
        [line |-> i, column |-> Len(ls[i].text) + 1],
        [line |-> i + 1, column |-> 1])
   EXCEPT !.blank = TRUE]

\* Fenced code opened at line i and closed at line j
codeNode(ls, i, j, last) ==
  Node("code", joinRange(ls, i + 1, j - 1), <<>>,
       [line |-> i, column |-> 1],
       [line |-> last, column |-> Len(ls[last].text) + 1])

\* The paragraph of the lines i..j, and its text
paragraphText(ls, i, j) ==
  joinRange([k \in 1..(j - i + 1) |->
               [text |-> trimLine(ls[i + k - 1].text), eol |-> ls[i + k - 1].eol]],
            1, j - i + 1)

\* The characters of one paragraph line with their places: the line without
\* its leading and trailing spaces and tabs, then its line ending.
lineUnits(l, n, last) ==
  LET a == indentOf(l.text) + 1
      b == contentEnd(l.text) - 1
  IN [k \in 1..Max(b - a + 1, 0) |->
        [ch |-> l.text[a + k - 1], line |-> n, column |-> a + k - 1]]
     \o (IF last THEN <<>>
         ELSE [k \in 1..Len(l.eol) |->
                 [ch |-> l.eol[k], line |-> n, column |-> Len(l.text) + k]])

\* The characters of the paragraph of the lines i..j.
RECURSIVE units(_, _, _)
units(ls, i, j) ==
  IF i > j THEN <<>>
  ELSE lineUnits(ls[i], i, i = j) \o units(ls, i + 1, j)

\* Place just after the unit u: the start of the next line after a line
\* ending.
unitEnd(u) ==
  IF u.ch = "\n" THEN [line |-> u.line + 1, column |-> 1]
  ELSE [line |-> u.line, column |-> u.column + 1]

unitStart(u) == [line |-> u.line, column |-> u.column]

\* The inlineTag construct: `{` not after a backslash (previous), then `@`
\* (begin), then everything up to a `}` (inside: the code is consumed
\* before `this.previous` is read, so `this.previous` is the `}` itself
\* and never a backslash).  0 when the construct does not start at k,
\* Len(us) + 1 when it starts and no `}` ends it.
inlineTagEnd(us, k) ==
  IF /\ us[k].ch = "{"
     /\ k + 1 <= Len(us) /\ us[k + 1].ch = "@"
     /\ (k > 1 => us[k - 1].ch # "\\")
  THEN SetMin({m \in (k + 2)..Len(us) : us[m].ch = "}"} \cup {Len(us) + 1})
  ELSE 0

\* /(?<tag>@(?<name>\b\S+))\s+(?<value>\S+(?=}))/.exec(slice): the places
\* a (the `@`), b (end of the tag), c (end of the white space), d (end of
\* the value) of the match that starts at a.
matchAt(sl, a) ==
  LET b == SetMin({k \in a..Len(sl) : isSpace(at(sl, k + 1)) \/ k = Len(sl)})
      c == SetMin({k \in b..Len(sl) : ~isSpace(at(sl, k + 1)) \/ k = Len(sl)})
      vs == {d \in (c + 1)..Len(sl) :
               /\ \A k \in (c + 1)..d : ~isSpace(sl[k])
               /\ at(sl, d + 1) = "}"}
  IN [ok |-> /\ sl[a] = "@" /\ isWord(at(sl, a + 1))
             /\ b > a /\ c > b /\ vs # {},
      b |-> b, c |-> c,
      d |-> IF vs = {} THEN 0 ELSE CHOOSE d \in vs : \A e \in vs : e <= d]

\* The inlineTag node of the slice, or an error node when the exit handler
\* finds no match (ok(match) and match.groups throw).
inlineTagNode(sl, start, end) ==
  LET as == {a \in 1..Len(sl) : matchAt(sl, a).ok} IN
  IF as = {} THEN Node("error", sl, <<>>, start, end)
  ELSE [Node("inlineTag",
             SubSeq(sl, matchAt(sl, SetMin(as)).c + 1,
                    matchAt(sl, SetMin(as)).d),
             <<>>, start, end)
        EXCEPT !.name = SubSeq(sl, SetMin(as), matchAt(sl, SetMin(as)).b)]

unitText(us, a, b) == [k \in 1..(b - a + 1) |-> us[a + k - 1].ch]

\* ASCII punctuation, the characters a backslash escapes.
isPunctuation(c) == c \in {"{", "}", "@", "*", "\\", "-", "/", bq}

\* characterEscape at unit k: a backslash and the punctuation after it.
characterEscape(us, k) ==
  /\ us[k].ch = "\\"
  /\ k + 1 <= Len(us)
  /\ isPunctuation(us[k + 1].ch)

\* hardBreakEscape at unit k: a backslash and, right after it, the line
\* ending of its line.
hardBreakEscape(us, k) ==
  /\ us[k].ch = "\\"
  /\ k + 1 <= Len(us)
  /\ us[k + 1].ch \in {"\n", "\r"}
  /\ us[k + 1].line = us[k].line
  /\ us[k + 1].column = us[k].column + 1

\* The value of the text of the units a..b: an escaping backslash is left
\* out.
RECURSIVE textValue(_, _, _)
textValue(us, a, b) ==
  IF a > b THEN <<>>
  ELSE IF a < b /\ characterEscape(us, a)
  THEN <<us[a + 1].ch>> \o textValue(us, a + 2, b)
  ELSE <<us[a].ch>> \o textValue(us, a + 1, b)

textNode(us, a, b) ==
  Node("text", textValue(us, a, b), <<>>, unitStart(us[a]), unitEnd(us[b]))

\* enter and exit of hardBreakEscape: a break with data.hard over the
\* backslash; the line ending after it starts the next text.
hardBreakNode(u) ==
  [Node("break", <<>>, <<>>, unitStart(u), unitEnd(u)) EXCEPT !.hard = TRUE]

\* The text content of a paragraph from unit k on, the text since unit a
\* not yet made a node: text, break and inlineTag nodes.
RECURSIVE inline(_, _, _)
RECURSIVE inlineAfter(_, _, _, _)
inline(us, k, a) ==
  IF k > Len(us)
  THEN (IF a <= Len(us) THEN <<textNode(us, a, Len(us))>> ELSE <<>>)
  ELSE IF hardBreakEscape(us, k)
  THEN (IF a < k THEN <<textNode(us, a, k - 1)>> ELSE <<>>)
       \o <<hardBreakNode(us[k])>> \o inline(us, k + 1, k + 1)
  ELSE IF characterEscape(us, k) THEN inline(us, k + 2, a)
  ELSE inlineAfter(us, k, a, inlineTagEnd(us, k))

inlineAfter(us, k, a, m) ==
  IF m = 0 THEN inline(us, k + 1, a)
  ELSE (IF a < k THEN <<textNode(us, a, k - 1)>> ELSE <<>>)
       \o (IF m > Len(us)
           THEN << Node("error", unitText(us, k, Len(us)), <<>>,
                        unitStart(us[k]), unitEnd(us[Len(us)])) >>
           ELSE << inlineTagNode(unitText(us, k, m), unitStart(us[k]),
                                 unitEnd(us[m])) >>
                  \o inline(us, m + 1, m + 1))

paragraphNode(ls, i, j, start, end) ==
  Node("paragraph", <<>>, inline(units(ls, i, j), 1, 1), start, end)

\* The list item of the lines i..j: its text is one paragraph.
itemNode(ls, i, j) ==
  Node("listItem", <<>>,
       << paragraphNode(itemLines(ls, i), i, j,
                        [line |-> i, column |-> 1 + indentOf(itemLines(ls, i)[i].text)],
                        [line |-> j, column |-> contentEnd(ls[j].text)]) >>,
       [line |-> i, column |-> 1],
       [line |-> j, column |-> contentEnd(ls[j].text)])

\* The items of a list from line i to line last.
RECURSIVE listItems(_, _, _)
listItems(ls, i, last) ==
  IF i > last THEN <<>>
  ELSE <<itemNode(ls, i, paragraphEnd(ls, i))>>
         \o listItems(ls, paragraphEnd(ls, i) + 1, last)

listNode(ls, i, j) ==
  Node("list", <<>>, listItems(ls, i, j),
       [line |-> i, column |-> 1],
       [line |-> j, column |-> contentEnd(ls[j].text)])

\* The flow nodes of the lines i.. of the text.
RECURSIVE flow(_, _)
RECURSIVE flowCode(_, _, _)
RECURSIVE flowParagraph(_, _, _)
RECURSIVE flowList(_, _, _)
flow(ls, i) ==
  IF i > Len(ls) THEN <<>>
  ELSE IF isBlankLine(ls[i].text) THEN
    (IF i = Len(ls) THEN <<>> ELSE <<blankBreak(ls, i)>>) \o flow(ls, i + 1)
  ELSE IF opensFence(ls[i].text) THEN
    flowCode(ls, i, fenceEnd(ls, i + 1, fenceRun(ls[i].text, 1)))
  ELSE IF isItem(ls[i].text) THEN flowList(ls, i, listEnd(ls, i))
  ELSE flowParagraph(ls, i, paragraphEnd(ls, i))

flowList(ls, i, j) == <<listNode(ls, i, j)>> \o flow(ls, j + 1)

flowCode(ls, i, j) ==
  <<codeNode(ls, i, j, Min(j, Len(ls)))>> \o flow(ls, j + 1)

flowParagraph(ls, i, j) ==
  << paragraphNode(ls, i, j,
                   [line |-> i, column |-> 1 + indentOf(ls[i].text)],
                   [line |-> j, column |-> contentEnd(ls[j].text)]) >>
    \o flow(ls, j + 1)

\* fromMarkdown(value).children, before the transforms of applyMarkdown.
fromMarkdown(value) == flow(linesOf(value, TRUE), 1)

----------------------------------------------------------------------------
(* Parser.applyMarkdown: src/unnamed/part_018:1475-1950 *)

\* Length of the match of /^(?:[\t ]*\*[\t ]{0,2})?/ at the start of line l.
decoration(l) ==
  LET i == indentOf(l) IN
  IF at(l, i + 1) = "*"
  THEN i + 1 + (IF at(l, i + 2) \in {" ", "\t"}
                THEN (IF at(l, i + 3) \in {" ", "\t"} THEN 2 ELSE 1)
                ELSE 0)
  ELSE 0

\* value.replaceAll(/^(?:[\t ]*\*[\t ]{0,2})?/gm, ...): the text without the
\* decoration of each line
uncomment(text) ==
  LET ls == linesOf(text, FALSE) IN
  joinLines([k \in 1..Len(ls) |->
               [text |-> SubSeq(ls[k].text, decoration(ls[k].text) + 1,
                                Len(ls[k].text)),
                eol  |-> ls[k].eol]])

\* ... and `map`, one [line, columns] entry per match: the columns removed,
\* or token.start.column - 1 for the first one.
columnMap(token) ==
  LET ls == linesOf(token.text, FALSE) IN
  [k \in 1..Len(ls) |->
     [line    |-> token.start.line + k - 1,
      removed |-> IF k = 1 THEN token.start.column - 1
                  ELSE decoration(ls[k].text)]]

\* template('```\n{value}\n```', { value })
fence(value) == <<bq, bq, bq, "\n">> \o value \o <<"\n", bq, bq, bq>>

\* Columns the transformer adds to a column on markdown-local line l.
shift(map, l) == IF l >= 1 /\ l <= Len(map) THEN map[l].removed ELSE 0

\* A transformer that ends a hard break at column 2.
transformPositionPlusOne(m, token, map, code) ==
  LET span   == m.position.end.line - m.position.start.line
      sline  == m.position.start.line + token.start.line - 1
      scol   == m.position.start.column + shift(map, m.position.start.line)
      ecol   == IF m.type = "break"
                THEN 1 + (IF m.hard THEN 1 ELSE 0)
                ELSE m.position.end.column + shift(map, m.position.end.line)
  IN [m EXCEPT !.position =
        [start |-> [line |-> sline, column |-> scol,
                    offset |-> offset(token.text, token.start,
                                      [line |-> sline, column |-> scol])],
         end   |-> IF code /\ m.type = "code"
                   THEN token.end
                   ELSE [line |-> sline + span, column |-> ecol,
                         offset |-> offset(token.text, token.start,
                                           [line |-> sline + span,
                                            column |-> ecol])]]]

\* The node position transformer on one node (not its children).
transformPosition(m, token, map, code) ==
  LET span   == m.position.end.line - m.position.start.line
      sline  == m.position.start.line + token.start.line - 1
      scol   == m.position.start.column + shift(map, m.position.start.line)
      start  == [line |-> sline, column |-> scol,
                 offset |-> offset(token.text, token.start,
                                   [line |-> sline, column |-> scol])]
      ecol   == IF m.type = "break"
                THEN 1 + (IF m.hard THEN scol ELSE 0)
                ELSE m.position.end.column + shift(map, m.position.end.line)
      eline  == sline + span
      end    == IF code /\ m.type = "code"
                THEN token.end
                ELSE [line |-> eline, column |-> ecol,
                      offset |-> offset(token.text, token.start,
                                        [line |-> eline, column |-> ecol])]
  IN [m EXCEPT !.position = [start |-> start, end |-> end]]

\* visit(tree, m => ...): the transformer on a list of nodes and on all
\* their descendants.
RECURSIVE transformPositions(_, _, _, _)
transformPositions(ms, token, map, code) ==
  [k \in 1..Len(ms) |->
     [transformPosition(ms[k], token, map, code)
      EXCEPT !.children = transformPositions(ms[k].children, token, map, code)]]

\* A blank-line pass that leaves the tree as it is.
insertNoBreaks(ms, token) == ms

\* The blank-line pass: a synthetic break before every blank-flagged break.
RECURSIVE insertBlankBreaks(_, _)
insertBlankBreaks(ms, token) ==
  IF ms = <<>> THEN <<>>
  ELSE LET m    == [ms[1] EXCEPT !.children = insertBlankBreaks(ms[1].children, token)]
           o    == m.position.start.offset - m.position.start.column
           rest == insertBlankBreaks(Tail(ms), token)
       IN IF m.type = "break" /\ m.blank
          THEN << Node("break", <<>>, <<>>,
                       point(token.text, token.start, o, FALSE),
                       point(token.text, token.start, o + 1, FALSE)),
                  m >> \o rest
          ELSE <<m>> \o rest

hasNewline(v) == \E i \in 1..Len(v) : v[i] \in {"\n", "\r"}

\* The text pass on a text node that does not follow a hard break.
normalizeText(m, token) ==
  IF m.type = "text" /\ hasNewline(m.value)
  THEN LET end == IF m.value[Len(m.value)] \in {"\n", "\r"}
                  THEN [m.position.end EXCEPT
                          !.column = 1,
                          !.offset = offset(token.text, token.start,
                                            [line |-> m.position.end.line,
                                             column |-> 1])]
                  ELSE m.position.end
       IN [m EXCEPT
             !.value = [i \in 1..Len(m.value) |->
                          IF m.value[i] \in {"\n", "\r"} THEN " " ELSE m.value[i]],
             !.position = [start |-> m.position.start, end |-> end]]
  ELSE m

\* `for (const [, [line, removed]] of map.entries()) if (start.line ===
\* line) { start.offset += removed; break }`: the columns removed on the
\* source line l.
removedOn(map, l) ==
  IF \E k \in 1..Len(map) : map[k].line = l
  THEN map[SetMin({k \in 1..Len(map) : map[k].line = l})].removed
  ELSE 0

\* The text pass on a text node with a newline that follows a hard break:
\* the first character goes and the start is looked up again.
textAfterHardBreak(m, token, map) ==
  IF m.value[1] \in {"\n", "\r"}
  THEN [m EXCEPT
          !.value = Tail(m.value),
          !.position = [start |-> point(token.text, token.start,
                                        m.position.start.offset
                                          + removedOn(map, m.position.start.line)
                                          + 1,
                                        FALSE),
                        end |-> m.position.end]]
  ELSE Node("error", m.value, <<>>, m.position.start, m.position.end)

\* The text pass on the k-th of the siblings ms.
normalizeAt(ms, k, token) ==
  IF /\ ms[k].type = "text" /\ hasNewline(ms[k].value)
     /\ k > 1 /\ ms[k - 1].type = "break" /\ ms[k - 1].hard
  THEN textAfterHardBreak(ms[k], token, columnMap(token))
  ELSE normalizeText(ms[k], token)

RECURSIVE normalizeTexts(_, _)
normalizeTexts(ms, token) ==
  [k \in 1..Len(ms) |->
     [normalizeAt(ms, k, token)
      EXCEPT !.children = normalizeTexts(ms[k].children, token)]]

\* Parser.applyMarkdown(token, code)
applyMarkdown(token, code) ==
  LET stripped == uncomment(token.text)
      value    == IF code THEN fence(stripped) ELSE stripped
      located  == transformPositions(fromMarkdown(value), token,
                                     columnMap(token), code)
  IN normalizeTexts(insertBlankBreaks(located, token), token)

----------------------------------------------------------------------------
(* Parser: src/unnamed/part_018:1256-1985 *)

\* s.startsWith(prefix)
startsWith(s, prefix) ==
  Len(s) >= Len(prefix) /\ SubSeq(s, 1, Len(prefix)) = prefix

\* s holds `part` as a substring: RegExp.test for a pattern of literal
\* characters.
includes(s, part) ==
  \E i \in 0..(Len(s) - Len(part)) : SubSeq(s, i + 1, i + Len(part)) = part

\* Parser constructor: defaults(options, { codeblocks: '@example' })
DefaultCodeblocks ==
  << [re |-> FALSE, text |-> <<"@", "e", "x", "a", "m", "p", "l", "e">>] >>

\* flat(sift([this.options.codeblocks])) after the constructor's defaults
codeblocksOf(opts) ==
  IF opts.codeblocks.set THEN opts.codeblocks.checks ELSE DefaultCodeblocks

\* codeblocks.some(check => isString(check) ? tag.text === check
\*                                          : check.test(tag.text))
isCodeblock(codeblocks, tagText) ==
  \E i \in 1..Len(codeblocks) :
    IF codeblocks[i].re
    THEN includes(tagText, codeblocks[i].text)
    ELSE tagText = codeblocks[i].text

\* token.text.slice(1, -1).replaceAll(/[\t ]*\*[\t ]{0,2}/g, '')
RECURSIVE stripStars(_)
stripStars(s) ==
  IF s = <<>> THEN <<>>
  ELSE IF decoration(s) > 0 THEN stripStars(SubSeq(s, decoration(s) + 1, Len(s)))
  ELSE <<s[1]>> \o stripStars(Tail(s))

typeExpressionNode(token) ==
  [Node("typeExpression",
        stripStars(SubSeq(token.text, 2, Len(token.text) - 1)),
        <<>>, token.start, token.end)
   EXCEPT !.name = <<>>]

kindAt(ts, i) == IF i >= 1 /\ i <= Len(ts) THEN ts[i].kind ELSE "<none>"

\* A blockTag that puts its type expression after its text.
blockTagChildrenTextFirst(typeExpressions, markdownNodes) ==
  markdownNodes \o typeExpressions

\* children: [...sift([typeExpression]), ...this.applyMarkdown(markdown, ...)]
blockTagChildren(typeExpressions, markdownNodes) ==
  typeExpressions \o markdownNodes

\* Parser.blockTag on the tokens from i on, tokens[i] being a tag:
\* seq(tok(tag), opt(typeExpression), opt(tok(markdown))).
\* The value is [node, next]: the node and the index after its tokens.
blockTag(ts, i, codeblocks) ==
  LET hasType == kindAt(ts, i + 1) = "typeExpression"
      m       == IF hasType THEN i + 2 ELSE i + 1
      hasMd   == kindAt(ts, m) = "markdown"
      code    == hasMd /\ isCodeblock(codeblocks, ts[i].text)
                       /\ ~startsWith(ts[m].text, <<bq, bq, bq>>)
      end     == IF hasMd THEN ts[m].end
                 ELSE IF hasType THEN ts[i + 1].end
                 ELSE ts[i].end
  IN [node |-> [Node("blockTag", <<>>,
                     blockTagChildren(
                       IF hasType THEN <<typeExpressionNode(ts[i + 1])>> ELSE <<>>,
                       IF hasMd THEN applyMarkdown(ts[m], code) ELSE <<>>),
                     ts[i].start, end)
                EXCEPT !.name = ts[i].text],
      next |-> IF hasMd THEN m + 1 ELSE m]

\* rep(this.blockTag): [nodes, next], the nodes of the block tags from
\* tokens[i] on and the index after their tokens.
RECURSIVE blockTags(_, _, _)
RECURSIVE blockTagsAfter(_, _, _)
blockTags(ts, i, codeblocks) ==
  IF kindAt(ts, i) = "tag"
  THEN blockTagsAfter(ts, blockTag(ts, i, codeblocks), codeblocks)
  ELSE [nodes |-> <<>>, next |-> i]

pushNode(n, rest) == [rest EXCEPT !.nodes = <<n>> \o rest.nodes]

blockTagsAfter(ts, b, codeblocks) ==
  pushNode(b.node, blockTags(ts, b.next, codeblocks))

\* Parser.description: apply(tok(markdown), ...)
description(token) ==
  Node("description", <<>>, applyMarkdown(token, FALSE), token.start, token.end)

\* A comment node that ends where its opener ends.
commentNodeAtOpener(ts, i, hasDesc, tags) ==
  [ok   |-> kindAt(ts, tags.next) = "closer",
   node |-> [type |-> "comment", children |->
               (IF hasDesc
                THEN <<[type |-> "description", children |-> <<>>,
                        value |-> <<>>,
                        position |-> [start |-> ts[i + 1].start,
                                      end |-> ts[i + 1].end],
                        blank |-> FALSE, hard |-> FALSE, name |-> <<>>]>>
                ELSE <<>>) \o tags.nodes,
             value |-> <<>>,
             position |-> [start |-> ts[i].start, end |-> ts[i].end],
             blank |-> FALSE, hard |-> FALSE, name |-> <<>>],
   next |-> tags.next + 1]

\* The comment node of tokens[i], an opener, given its block tags.
commentNode(ts, i, hasDesc, tags) ==
  IF kindAt(ts, tags.next) = "closer"
  THEN [ok   |-> TRUE,
        node |-> Node("comment", <<>>,
                      (IF hasDesc THEN <<description(ts[i + 1])>> ELSE <<>>)
                        \o tags.nodes,
                      ts[i].start, ts[tags.next].end),
        next |-> tags.next + 1]
  ELSE [ok   |-> FALSE,
        node |-> Node("comment", <<>>,
                      (IF hasDesc THEN <<description(ts[i + 1])>> ELSE <<>>)
                        \o tags.nodes,
                      ts[i].start, ts[i].end),
        next |-> tags.next + 1]

\* Parser.comment on the tokens from i on:
\* seq(tok(opener), opt(description), rep(blockTag), tok(closer)).
\* The value is [ok, node, next].
comment_(ts, i, codeblocks) ==
  IF kindAt(ts, i) = "opener"
  THEN commentNode(ts, i, kindAt(ts, i + 1) = "markdown",
                   blockTags(ts,
                             IF kindAt(ts, i + 1) = "markdown" THEN i + 2 ELSE i + 1,
                             codeblocks))
  ELSE [ok |-> FALSE, node |-> NoTree, next |-> i + 1]

\* An exit handler of fromMarkdown threw while a node below ms was made.
RECURSIVE threw(_)
threw(ms) ==
  \E k \in 1..Len(ms) : ms[k].type = "error" \/ threw(ms[k].children)

\* rep(this.comment) followed by expectEOF: the comments parsed from
\* tokens[i] on (the longest candidate of rep), whether the tokens end after
\* them, and whether a callback threw in the comment that did not parse.
RECURSIVE comments(_, _, _)
RECURSIVE commentsAfter(_, _, _)
comments(ts, i, codeblocks) ==
  IF i > Len(ts) THEN [ok |-> TRUE, nodes |-> <<>>, threw |-> FALSE]
  ELSE commentsAfter(ts, comment_(ts, i, codeblocks), codeblocks)

commentsAfter(ts, c, codeblocks) ==
  IF c.ok
  THEN pushNode(c.node, comments(ts, c.next, codeblocks))
  ELSE [ok |-> FALSE, nodes |-> <<>>, threw |-> threw(<<c.node>>)]

\* u('root', { children }) of the longest candidate
rootNode(cs) ==
  [ok    |-> cs.ok,
   tree  |-> [type |-> "root", children |-> cs.nodes],
   threw |-> cs.threw \/ threw(cs.nodes)]

\* Parser.root without its transforms
root(ts, codeblocks) == rootNode(comments(ts, 1, codeblocks))

\* A transform that unwraps the paragraphs of block tags only.
RECURSIVE dumpParagraphsOfTags(_, _)
dumpParagraphsOfTags(ms, parentType) ==
  IF ms = <<>> THEN <<>>
  ELSE IF ms[1].type = "paragraph" /\ parentType = "blockTag"
  THEN dumpParagraphsOfTags(ms[1].children \o Tail(ms), parentType)
  ELSE <<[ms[1] EXCEPT !.children = dumpParagraphsOfTags(ms[1].children, ms[1].type)]>>
         \o dumpParagraphsOfTags(Tail(ms), parentType)

\* The `paragraphs` transform on the children of one parent: a paragraph
\* directly in a blockTag or a listItem is replaced by its children.
RECURSIVE dumpParagraphs(_, _)
dumpParagraphs(ms, parentType) ==
  IF ms = <<>> THEN <<>>
  ELSE LET m == ms[1] IN
       IF m.type = "paragraph" /\ parentType \in {"blockTag", "listItem"}
       THEN dumpParagraphs(m.children \o Tail(ms), parentType)
       ELSE <<[m EXCEPT !.children = dumpParagraphs(m.children, m.type)]>>
              \o dumpParagraphs(Tail(ms), parentType)

paragraphs(t) == [t EXCEPT !.children = dumpParagraphs(t.children, "root")]

----------------------------------------------------------------------------
(* fromDocs specification: one call of fromDocs(document) with the default *)
(* options, from the construction of the lexer to the returned tree.       *)

\* Most pieces between the first and the last piece of a document.
MaxPieces == 3

Opener == <<"/", "*", "*", " ">>

Closer == <<" ", "*", "/">>

\* What documents are put together from: an opener, a closer, two tags (one
\* with a type expression), text, and continuation lines with text and
\* with a code fence, one of them after a "\r\n" line ending.
Pieces ==
  { Opener,
    Closer,
    <<"@", "e", "x", "a", "m", "p", "l", "e", " ">>,
    <<"@", "p", " ", "{", "n", "}", " ">>,
    <<"a", "b">>,
    <<"\n", " ", "*", " ", "c", "d">>,
    <<"\n", " ", "*", " ", bq, bq, bq>>,
    <<"\r", "\n", " ", "*", " ", bq, bq, bq>> }

RECURSIVE concat(_)
concat(ps) == IF ps = <<>> THEN <<>> ELSE ps[1] \o concat(Tail(ps))

\* The documents: up to MaxPieces pieces, after an opener or not, before a
\* closer or not.
Docs ==
  { pre \o concat(ps) \o post :
      pre \in {<<>>, Opener}, ps \in SeqsUpTo(Pieces, MaxPieces),
      post \in {<<>>, Closer} }


DocInit ==
  /\ document \in Docs
  /\ whole = document
  /\ from = DefaultFrom
  /\ op = "new"
  /\ argOffset = 0
  /\ argFrac = FALSE
  /\ argPoint = NoPoint
  /\ ret = 0
  /\ options = [multiline |-> FALSE, codeblocks |-> Unset, transforms |-> <<>>]
  /\ match = 0
  /\ reader = 0
  /\ cursor = NoCursor
  /\ invoked = <<>>
  /\ index = 0
  /\ comment = FALSE
  /\ tokens = <<>>
  /\ pc = "lex"
  /\ tree = NoTree

\* Lexer.tokenize: one iteration of the loop over the document.
LexStep ==
  /\ pc = "lex"
  /\ index < Len(document)
  /\ LET st == tokenizeStep(document, from, options.multiline,
                            [index |-> index, comment |-> comment,
                             tokens |-> tokens, consumed |-> FALSE])
     IN /\ index' = st.index
        /\ comment' = st.comment
        /\ tokens' = st.tokens
  /\ UNCHANGED <<locVars, options, pc, tree, match, reader, cursor, invoked>>

\* Lexer.tokenize: the reader is at the end of the document.
LexEof ==
  /\ pc = "lex"
  /\ index >= Len(document)
  /\ pc' = "parse"
  /\ UNCHANGED <<locVars, options, index, comment, tokens, tree, match, reader, cursor, invoked>>

\* Parser.parse up to the first transform: rep(this.comment) has parsed
\* every candidate (the comments from the head on, and each shorter run of
\* them) before the callback of Parser.root is applied to the first one.
\* An error thrown inside applyMarkdown leaves the parse.
Parse ==
  /\ pc = "parse"
  /\ \E r \in {root(tokens, codeblocksOf(options))} :
       IF r.threw
       THEN pc' = "failed" /\ tree' = NoTree /\ cursor' = cursor
       ELSE /\ pc' = "transform"
            /\ tree' = r.tree
            /\ cursor' = [candidate |-> 1, transform |-> 0,
                          of |-> Len(r.tree.children) + 1, eof |-> r.ok]
  /\ UNCHANGED <<locVars, options, index, comment, tokens, match, reader, invoked>>

\* The cursor after the transform c.transform of the candidate c.candidate
\* returned: the next transform, the first transform of the next
\* candidate, or candidate 0 when every candidate is done.
advanceCursor(c, n) ==
  IF c.transform < n THEN [c EXCEPT !.transform = c.transform + 1]
  ELSE IF c.candidate < c.of
  THEN [c EXCEPT !.candidate = c.candidate + 1, !.transform = 0]
  ELSE [c EXCEPT !.candidate = 0, !.transform = 0]

\* Parser.root: one turn of `for (const transform of [paragraphs,
\* ...transforms]) void transform(tree)`, in the callback that apply() runs
\* on each candidate of rep(this.comment), the longest first.  `tree` is the
\* tree of the longest candidate, the one Parser.parse returns; the shorter
\* candidates hold the same comment nodes.  After the last turn expectEOF
\* and expectSingleResult decide: the tree is returned when the tokens end
\* after the longest candidate.
Transform ==
  /\ pc = "transform"
  /\ invoked' = Append(invoked, cursor.transform)
  /\ IF cursor.transform > 0 /\ options.transforms[cursor.transform] = "throws"
     THEN pc' = "failed" /\ tree' = NoTree /\ cursor' = cursor
     ELSE \E c \in {advanceCursor(cursor, Len(options.transforms))} :
            /\ cursor' = c
            /\ pc' = IF c.candidate # 0 THEN "transform"
                     ELSE IF c.eof THEN "done" ELSE "failed"
            /\ tree' = IF c.candidate = 0 /\ ~c.eof THEN NoTree
                       ELSE IF cursor.transform = 0 THEN paragraphs(tree)
                       ELSE tree
  /\ UNCHANGED <<locVars, options, index, comment, tokens, match, reader>>

DocNext == LexStep \/ LexEof \/ Parse \/ Transform

DocSpec == DocInit /\ [][DocNext]_vars

----------------------------------------------------------------------------
(* The comment-search tokenizer: src/src/lexer.ts:317-379.  It tokenizes   *)
(* the matches of a search for whole comments, reading each match with a   *)
(* reader of its own, and stops at the first rule that matches.            *)

\* Offsets (0-based) at or after pos where `*/` lies.
closersFrom(doc, pos) ==
  {e \in pos..(Len(doc) - 2) : doc[e + 1] = "*" /\ doc[e + 2] = "/"}

\* End (exclusive) of the match of /\/\*{2,2}.*?\*\//s at offset s, or, with
\* multiline, of /\/\*{1,2}.*?\*\//s; 0 when there is none.
searchEnd(doc, multiline, s) ==
  IF at(doc, s + 1) = "/" /\ at(doc, s + 2) = "*" /\ at(doc, s + 3) = "*"
     /\ closersFrom(doc, s + 3) # {}
  THEN SetMin(closersFrom(doc, s + 3)) + 2
  ELSE IF multiline /\ at(doc, s + 1) = "/" /\ at(doc, s + 2) = "*"
          /\ closersFrom(doc, s + 2) # {}
  THEN SetMin(closersFrom(doc, s + 2)) + 2
  ELSE 0

\* this.file.matchAll(search) from offset pos on: the matches in order, each
\* [index, text].
RECURSIVE matchAll(_, _, _)
matchAll(doc, multiline, pos) ==
  LET S == {x \in pos..Len(doc) : searchEnd(doc, multiline, x) > 0} IN
  IF S = {} THEN <<>>
  ELSE << [index |-> SetMin(S),
           text  |-> SubSeq(doc, SetMin(S) + 1,
                            searchEnd(doc, multiline, SetMin(S)))] >>
       \o matchAll(doc, multiline, searchEnd(doc, multiline, SetMin(S)))

\* `for (const [keep, rule, kind] of this.rules) { ... break }`: the first
\* of the rules r.. that matches t and applies, 0 when none does.
RECURSIVE firstRule(_, _, _, _)
firstRule(t, multiline, inComment, r) ==
  IF r > Len(rules) THEN 0
  ELSE IF peekMatch(rules[r].kind, t, multiline) > 0
          /\ applicable(rules[r].kind, inComment)
  THEN r
  ELSE firstRule(t, multiline, inComment, r + 1)

\* One iteration of `while (!reader.eof)`, rule r being the one that matched:
\* its match is tokenized with the lexer's own reader.
searchStep(doc, frm, multiline, st, r) ==
  IF r = 0 THEN [st EXCEPT !.consumed = FALSE]
  ELSE tokenizeMatch(doc, frm, st, rules[r].kind,
                     peekMatch(rules[r].kind, slice(doc, st.index), multiline),
                     rules[r].keep)

SearchInit ==
  /\ document \in Docs
  /\ whole = document
  /\ from = DefaultFrom
  /\ op = "new"
  /\ argOffset = 0
  /\ argFrac = FALSE
  /\ argPoint = NoPoint
  /\ ret = 0
  /\ options = [multiline |-> FALSE, codeblocks |-> Unset, transforms |-> <<>>]
  /\ index = 0
  /\ comment = FALSE
  /\ tokens = <<>>
  /\ pc = "search"
  /\ tree = NoTree
  /\ match = 0
  /\ reader = 0
  /\ cursor = NoCursor
  /\ invoked = <<>>

\* The comment reader is at its end, or there is no comment yet.
readerEof(ms) == IF match = 0 THEN TRUE ELSE reader >= Len(ms[match].text)

\* `for (const match of this.file.matchAll(search))`: the next match;
\* this.reader.read((match.index - this.reader.index) + match.length - 1),
\* match.length being 1, and a new Reader(match[0]).
SearchMatch ==
  /\ pc = "search"
  /\ \E ms \in {matchAll(document, options.multiline, 0)} :
       /\ readerEof(ms)
       /\ match < Len(ms)
       /\ match' = match + 1
       /\ index' = index + (ms[match + 1].index - index)
       /\ reader' = 0
  /\ UNCHANGED <<locVars, options, comment, tokens, pc, tree, cursor, invoked>>

\* One iteration of `while (!reader.eof)`.
SearchStep ==
  /\ pc = "search"
  /\ match > 0
  /\ ~readerEof(matchAll(document, options.multiline, 0))
  /\ \E st \in {searchStep(document, from, options.multiline,
                           [index |-> index, comment |-> comment,
                            tokens |-> tokens, consumed |-> FALSE],
                           firstRule(slice(document, index), options.multiline,
                                     comment, 1))} :
       /\ index' = st.index
       /\ comment' = st.comment
       /\ tokens' = st.tokens
       /\ reader' = IF st.consumed THEN reader ELSE reader + 1
  /\ UNCHANGED <<locVars, options, pc, tree, match, cursor, invoked>>

\* The search has no further match: tokenize returns.
SearchEof ==
  /\ pc = "search"
  /\ \E ms \in {matchAll(document, options.multiline, 0)} :
       readerEof(ms) /\ match = Len(ms)
  /\ pc' = "parse"
  /\ UNCHANGED <<locVars, options, index, comment, tokens, tree, match, reader, cursor, invoked>>

SearchNext == SearchMatch \/ SearchStep \/ SearchEof \/ Parse \/ Transform

SearchSpec == SearchInit /\ [][SearchNext]_vars

----------------------------------------------------------------------------
(* fromDocs with a `codeblocks` option: block tags with text, under each   *)
(* way of naming a tag in the option.                                      *)

example == <<"e", "x", "a", "m", "p", "l", "e">>

\* Entries of the option: a string or a regular expression (of literal
\* characters) that names a tag with or without its `@`.
Checks ==
  { [re |-> r, text |-> t] :
      r \in BOOLEAN, t \in {example, <<"@">> \o example, <<"p">>, <<"@", "p">>} }

\* The option: not given, null, one entry, or a list of two entries.
CodeblockOptions ==
  {Unset, [set |-> TRUE, checks |-> <<>>]}
    \cup {[set |-> TRUE, checks |-> <<c>>] : c \in Checks}
    \cup {[set |-> TRUE, checks |-> <<c, d>>] :
            c \in {[re |-> FALSE, text |-> <<"p">>]}, d \in Checks}

\* One comment with one block tag and its text.
CodeblockDocs ==
  { Opener \o t \o b \o Closer :
      t \in { <<"@", "e", "x", "a", "m", "p", "l", "e", " ">>,
              <<"@", "p", " ", "{", "n", "}", " ">> },
      b \in { <<"a", "b">>, <<"a", "b", "\n", " ", "*", " ", "c", "d">> } }

CodeblockInit ==
  /\ document \in CodeblockDocs
  /\ whole = document
  /\ from = DefaultFrom
  /\ op = "new"
  /\ argOffset = 0
  /\ argFrac = FALSE
  /\ argPoint = NoPoint
  /\ ret = 0
  /\ options \in {[multiline |-> FALSE, codeblocks |-> o, transforms |-> <<>>] :
                    o \in CodeblockOptions}
  /\ index = 0
  /\ comment = FALSE
  /\ tokens = <<>>
  /\ pc = "lex"
  /\ tree = NoTree
  /\ match = 0
  /\ reader = 0
  /\ cursor = NoCursor
  /\ invoked = <<>>

CodeblockSpec == CodeblockInit /\ [][DocNext]_vars

----------------------------------------------------------------------------
(* fromDocs on comments with inline tags in the description and in the     *)
(* text of a block tag.                                                    *)

MaxInline == 3

InlinePieces ==
  { <<"{", "@", "l", " ", "F", "}">>,
    <<"{", "@", "l", "}">>,
    <<"a", "b">>,
    <<" ">>,
    <<"\n", " ", "*", " ">>,
    <<"\r", "\n", " ", "*", " ">>,
    <<"@", "p", " ">> }

InlineDocs ==
  { Opener \o concat(ps) \o Closer : ps \in SeqsUpTo(InlinePieces, MaxInline) }

InlineInit ==
  /\ document \in InlineDocs
  /\ whole = document
  /\ from = DefaultFrom
  /\ op = "new"
  /\ argOffset = 0
  /\ argFrac = FALSE
  /\ argPoint = NoPoint
  /\ ret = 0
  /\ options = [multiline |-> FALSE, codeblocks |-> Unset, transforms |-> <<>>]
  /\ index = 0
  /\ comment = FALSE
  /\ tokens = <<>>
  /\ pc = "lex"
  /\ tree = NoTree
  /\ match = 0
  /\ reader = 0
  /\ cursor = NoCursor
  /\ invoked = <<>>

InlineSpec == InlineInit /\ [][DocNext]_vars

----------------------------------------------------------------------------
(* fromDocs on comments with bullet lists in the description and in the    *)
(* text of a block tag.                                                    *)

MaxList == 3

ListPieces ==
  { <<"-", " ", "a", "b">>,
    <<"a", "b">>,
    <<"\n", " ", "*", " ", "-", " ", "a", "b">>,
    <<"\n", " ", "*", " ", "c", "d">>,
    <<"@", "p", " ">>,
    <<"\n", " ", "*", " ", "@", "p", " ">> }

ListDocs ==
  { Opener \o concat(ps) \o Closer : ps \in SeqsUpTo(ListPieces, MaxList) }

ListInit ==
  /\ document \in ListDocs
  /\ whole = document
  /\ from = DefaultFrom
  /\ op = "new"
  /\ argOffset = 0
  /\ argFrac = FALSE
  /\ argPoint = NoPoint
  /\ ret = 0
  /\ options = [multiline |-> FALSE, codeblocks |-> Unset, transforms |-> <<>>]
  /\ index = 0
  /\ comment = FALSE
  /\ tokens = <<>>
  /\ pc = "lex"
  /\ tree = NoTree
  /\ match = 0
  /\ reader = 0
  /\ cursor = NoCursor
  /\ invoked = <<>>

ListSpec == ListInit /\ [][DocNext]_vars

----------------------------------------------------------------------------
(* fromDocs with caller transforms: options.transforms holds up to         *)
(* MaxTransforms functions, each of which returns or throws.               *)

MaxTransforms == 2

Transforms == SeqsUpTo({"returns", "throws"}, MaxTransforms)

\* No comment, one, two, three; a comment that is not closed, alone and
\* after a comment; text outside comments.
TransformDocs ==
  { <<>>,
    <<"a", "b">>,
    Opener \o <<"a", "b">> \o Closer,
    Opener \o <<"a", "b">> \o Closer \o Opener \o <<"@", "p", " ", "c", "d">> \o Closer,
    Opener \o Closer \o Opener \o Closer \o Opener \o Closer,
    Opener \o <<"a", "b">>,
    Opener \o <<"a", "b">> \o Closer \o Opener \o <<"a", "b">> }

TransformInit ==
  /\ document \in TransformDocs
  /\ whole = document
  /\ from = DefaultFrom
  /\ op = "new"
  /\ argOffset = 0
  /\ argFrac = FALSE
  /\ argPoint = NoPoint
  /\ ret = 0
  /\ options \in {[multiline |-> FALSE, codeblocks |-> Unset, transforms |-> t] :
                    t \in Transforms}
  /\ index = 0
  /\ comment = FALSE
  /\ tokens = <<>>
  /\ pc = "lex"
  /\ tree = NoTree
  /\ match = 0
  /\ reader = 0
  /\ cursor = NoCursor
  /\ invoked = <<>>

TransformSpec == TransformInit /\ [][DocNext]_vars

----------------------------------------------------------------------------
(* fromDocs with and without options.multiline, on documents with `/*`    *)
(* and `/**` openers.                                                      *)

MaxMultiline == 4

MultilinePieces ==
  { <<"/", "*", " ">>, Opener, <<"a", "b">>, Closer }

MultilineDocs == { concat(ps) : ps \in SeqsUpTo(MultilinePieces, MaxMultiline) }

MultilineInit ==
  /\ document \in MultilineDocs
  /\ whole = document
  /\ from = DefaultFrom
  /\ op = "new"
  /\ argOffset = 0
  /\ argFrac = FALSE
  /\ argPoint = NoPoint
  /\ ret = 0
  /\ options \in {[multiline |-> m, codeblocks |-> Unset, transforms |-> <<>>] :
                    m \in BOOLEAN}
  /\ index = 0
  /\ comment = FALSE
  /\ tokens = <<>>
  /\ pc = "lex"
  /\ tree = NoTree
  /\ match = 0
  /\ reader = 0
  /\ cursor = NoCursor
  /\ invoked = <<>>

MultilineSpec == MultilineInit /\ [][DocNext]_vars

----------------------------------------------------------------------------
(* Properties of fromDocs *)

\* `/**` lies somewhere in doc.
hasOpener(doc) ==
  \E i \in 1..Len(doc) :
    at(doc, i) = "/" /\ at(doc, i + 1) = "*" /\ at(doc, i + 2) = "*"

\* doc holds a `/**` with no `*/` after it.
unterminated(doc) ==
  \E i \in 1..Len(doc) :
    /\ at(doc, i) = "/" /\ at(doc, i + 1) = "*" /\ at(doc, i + 2) = "*"
    /\ closersFrom(doc, i + 2) = {}

\* The grammar root := comment*, comment := opener description? blockTag*
\* closer, blockTag := tag typeExpression? markdown?, as an automaton over
\* token kinds: the state after the kinds ks, read from state q.
RECURSIVE grammarState(_, _)
grammarState(ks, q) ==
  IF ks = <<>> THEN q
  ELSE LET k == ks[1]
           n == CASE q = "out" /\ k = "opener" -> "opened"
                  [] q = "opened" /\ k = "markdown" -> "description"
                  [] q = "tag" /\ k = "typeExpression" -> "type"
                  [] q \in {"tag", "type"} /\ k = "markdown" -> "text"
                  [] q \in {"opened", "description", "tag", "type", "text"}
                       /\ k = "tag" -> "tag"
                  [] q \in {"opened", "description", "tag", "type", "text"}
                       /\ k = "closer" -> "out"
                  [] OTHER -> "reject"
       IN grammarState(Tail(ks), n)

inGrammar(ts) == grammarState([i \in 1..Len(ts) |-> ts[i].kind], "out") = "out"

tokenized == pc \in {"parse", "transform", "done", "failed"}

built == pc \in {"transform", "done"}

EmptyRoot == [type |-> "root", children |-> <<>>]

\* The blockTag nodes of the tree, in order.
RECURSIVE blockTagsIn(_)
blockTagsIn(cs) ==
  IF cs = <<>> THEN <<>>
  ELSE SelectSeq(cs[1].children, LAMBDA n : n.type = "blockTag")
         \o blockTagsIn(Tail(cs))

\* Index of the k-th tag token.
nthTag(ts, k) ==
  CHOOSE i \in 1..Len(ts) :
    /\ ts[i].kind = "tag"
    /\ Cardinality({j \in 1..i : ts[j].kind = "tag"}) = k

\* Index of the markdown token of the tag token i, 0 when it has none.
textOf(ts, i) ==
  IF kindAt(ts, i + 1) = "markdown" THEN i + 1
  ELSE IF kindAt(ts, i + 1) = "typeExpression" /\ kindAt(ts, i + 2) = "markdown"
  THEN i + 2
  ELSE 0

\* The children of a blockTag that are not its type expression.
markdownChildren(b) == SelectSeq(b.children, LAMBDA n : n.type # "typeExpression")

C7_TypeExpressionFirst ==
  built =>
    \A k \in 1..Len(blockTagsIn(tree.children)) :
      LET b == blockTagsIn(tree.children)[k]
          i == nthTag(tokens, k)
          md == applyMarkdown(tokens[textOf(tokens, i)], FALSE)
      IN /\ \A j \in 1..Len(b.children) :
              b.children[j].type = "typeExpression" => j = 1
         /\ kindAt(tokens, i + 1) = "typeExpression" =>
              /\ b.children # <<>>
              /\ b.children[1].type = "typeExpression"
              /\ b.children[1].value =
                   SubSeq(tokens[i + 1].text, 2, Len(tokens[i + 1].text) - 1)
              /\ b.children[1].position.start = tokens[i + 1].start
              /\ textOf(tokens, i) # 0 =>
                   Tail(b.children) \in {md, dumpParagraphs(md, "blockTag")}

C7_Witness ==
  /\ pc = "done"
  /\ \E k \in 1..Len(blockTagsIn(tree.children)) :
       LET b == blockTagsIn(tree.children)[k] IN
       /\ Len(b.children) = 2
       /\ b.children[1].type = "typeExpression"
       /\ b.children[1].value = <<"n">>
       /\ b.children[2].type = "text"
       /\ b.children[2].value = <<"a", "b">>

\* Columns stripped from the markdown line l of the token's text: the
\* decoration of the line, or what lies before the token on its first line.
strippedOn(token, l) ==
  IF l = 1 THEN token.start.column - 1
  ELSE decoration(linesOf(token.text, TRUE)[l].text)

\* The character at a markdown-local point of the stripped text.
localChar(token, p) == at(linesOf(uncomment(token.text), TRUE)[p.line].text, p.column)

\* The remapped start of node n is the source place of the local start of
\* the markdown node l.
faithful(token, l, n) ==
  /\ n.position.start.line = l.position.start.line + token.start.line - 1
  /\ n.position.start.column =
       l.position.start.column + strippedOn(token, l.position.start.line)
  /\ n.position.start.offset =
       offset(document, DefaultFrom,
              [line |-> n.position.start.line, column |-> n.position.start.column])
  /\ at(document, n.position.start.offset + 1) = localChar(token, l.position.start)

\* The description nodes of the tree, in order.
RECURSIVE descriptionsIn(_)
descriptionsIn(cs) ==
  IF cs = <<>> THEN <<>>
  ELSE SelectSeq(cs[1].children, LAMBDA n : n.type = "description")
         \o descriptionsIn(Tail(cs))

\* The markdown token a description was made from.
tokenOf(d) ==
  CHOOSE t \in {tokens[i] : i \in 1..Len(tokens)} :
    t.kind = "markdown" /\ t.start = d.position.start

\* C8: the remapped start of a markdown node designates in the document the
\* character its local start designated in the stripped text: line plus
\* token.start.line - 1, column plus the columns stripped from that line,
\* offset the Position Index offset of that line and column.
C8_PositionFidelity ==
  pc = "done" =>
    \A k \in 1..Len(descriptionsIn(tree.children)) :
      LET d == descriptionsIn(tree.children)[k]
          local == fromMarkdown(uncomment(tokenOf(d).text))
      IN Len(local) = Len(d.children) =>
           \A j \in 1..Len(local) :
             /\ faithful(tokenOf(d), local[j], d.children[j])
             /\ \A c \in 1..Len(local[j].children) :
                  faithful(tokenOf(d), local[j].children[c],
                           d.children[j].children[c])

\* The option designates the tag, as documented: an entry that is a string
\* equals the tag or its name without `@`, a regular expression matches
\* one of them; without the option the `example` tag is designated.
designates(o, tagText) ==
  IF ~o.set THEN tagText = <<"@">> \o example
  ELSE \E i \in 1..Len(o.checks) :
         IF o.checks[i].re
         THEN includes(tagText, o.checks[i].text)
         ELSE o.checks[i].text \in {tagText, Tail(tagText)}

\* C9: a block tag designated by the `codeblocks` option (a string entry
\* equal to its name or its `@tag`, a RegExp entry that matches, the
\* `example` tag by default) has its text made a fenced code block, and no
\* other tag has.
C9_Designation ==
  pc = "done" =>
    \A k \in 1..Len(blockTagsIn(tree.children)) :
      LET b == blockTagsIn(tree.children)[k] IN
      textOf(tokens, nthTag(tokens, k)) # 0 =>
        (designates(options.codeblocks, b.name)
           <=> /\ Len(markdownChildren(b)) = 1
               /\ markdownChildren(b)[1].type = "code")

\* C10: with default options the text of an `@example` tag that does not
\* start with a code fence becomes exactly one code node whose value is
\* the stripped text.
C10_ExampleIsOneCode ==
  (pc = "done" /\ ~options.codeblocks.set) =>
    \A k \in 1..Len(blockTagsIn(tree.children)) :
      LET b == blockTagsIn(tree.children)[k]
          m == textOf(tokens, nthTag(tokens, k))
      IN (b.name = <<"@">> \o example /\ m # 0
            /\ ~startsWith(tokens[m].text, <<bq, bq, bq>>)) =>
           /\ Len(markdownChildren(b)) = 1
           /\ markdownChildren(b)[1].type = "code"
           /\ markdownChildren(b)[1].value = uncomment(tokens[m].text)

\* All nodes below ms, parents before their children.
RECURSIVE nodesIn(_)
nodesIn(ms) ==
  IF ms = <<>> THEN <<>>
  ELSE <<ms[1]>> \o nodesIn(ms[1].children) \o nodesIn(Tail(ms))

inlineTagsIn(t) == SelectSeq(nodesIn(t.children), LAMBDA n : n.type = "inlineTag")

LinkFoo == <<"{", "@", "l", " ", "F", "}">>

\* The offsets of the document at which `{@l F}` is written.
linksOf(doc) ==
  {o \in 0..(Len(doc) - Len(LinkFoo)) : SubSeq(doc, o + 1, o + Len(LinkFoo)) = LinkFoo}

\* The point of the document at offset o, counted line ending by line
\* ending.
placeOf(doc, o) == point(doc, DefaultFrom, o, FALSE)

\* C11: markdown text containing `{@l F}` yields an inlineTag node with
\* name `@l` and value `F` whose position runs from the `{` to just after
\* the `}` in the coordinates of the document.
C11_InlineTag ==
  pc = "done" =>
    /\ \A o \in linksOf(document) :
         \E k \in 1..Len(inlineTagsIn(tree)) :
           inlineTagsIn(tree)[k].position.start.offset = o
    /\ \A k \in 1..Len(inlineTagsIn(tree)) :
         LET n == inlineTagsIn(tree)[k] IN
         /\ n.name = <<"@", "l">>
         /\ n.value = <<"F">>
         /\ n.position.start.offset \in linksOf(document)
         /\ n.position.start = placeOf(document, n.position.start.offset)
         /\ n.position.end =
              placeOf(document, n.position.start.offset + Len(LinkFoo))

\* A node without its children, at a depth of the tree.
outlined(n, depth) ==
  [type |-> n.type, value |-> n.value, name |-> n.name,
   position |-> n.position, depth |-> depth]

\* The nodes below ms with their depths, parents before their children.
RECURSIVE outline(_, _)
outline(ms, depth) ==
  IF ms = <<>> THEN <<>>
  ELSE <<outlined(ms[1], depth)>> \o outline(ms[1].children, depth + 1)
         \o outline(Tail(ms), depth)

\* The outline the nodes below ms have once every paragraph directly in a
\* blockTag or a listItem has given its place to its children.
RECURSIVE unwrappedOutline(_, _, _)
unwrappedOutline(ms, parentType, depth) ==
  IF ms = <<>> THEN <<>>
  ELSE (IF ms[1].type = "paragraph" /\ parentType \in {"blockTag", "listItem"}
        THEN unwrappedOutline(ms[1].children, parentType, depth)
        ELSE <<outlined(ms[1], depth)>>
               \o unwrappedOutline(ms[1].children, ms[1].type, depth + 1))
       \o unwrappedOutline(Tail(ms), parentType, depth)

\* A paragraph is a direct child of the node n.
holdsParagraph(n) == \E k \in 1..Len(n.children) : n.children[k].type = "paragraph"

\* C12: in the tree handed to the first caller transform (and returned when
\* there is none) no blockTag and no listItem has a paragraph as a direct
\* child: each such paragraph has given its place to its own children, in
\* their order, and nothing else has changed, so the paragraphs directly in
\* a description are still there.
C12_ParagraphUnwrap ==
  [][(pc = "transform" /\ invoked = <<>> /\ tree' # NoTree) =>
       /\ \A k \in 1..Len(nodesIn(tree'.children)) :
            nodesIn(tree'.children)[k].type \in {"blockTag", "listItem"}
              => ~holdsParagraph(nodesIn(tree'.children)[k])
       /\ outline(tree'.children, 1) = unwrappedOutline(tree.children, "root", 1)
       /\ \A k \in 1..Len(nodesIn(tree.children)) :
            nodesIn(tree.children)[k].type = "description"
              => \E j \in 1..Len(nodesIn(tree'.children)) :
                   /\ nodesIn(tree'.children)[j].type = "description"
                   /\ [i \in 1..Len(nodesIn(tree'.children)[j].children) |->
                         nodesIn(tree'.children)[j].children[i].type]
                      = [i \in 1..Len(nodesIn(tree.children)[k].children) |->
                           nodesIn(tree.children)[k].children[i].type]
                   /\ nodesIn(tree'.children)[j].position
                        = nodesIn(tree.children)[k].position]_vars

C12_Witness ==
  /\ pc = "done"
  /\ \E k \in 1..Len(nodesIn(tree.children)) :
       /\ nodesIn(tree.children)[k].type = "blockTag"
       /\ \E i \in 1..Len(nodesIn(tree.children)[k].children) :
            nodesIn(tree.children)[k].children[i].type = "text"
  /\ \E k \in 1..Len(nodesIn(tree.children)) :
       /\ nodesIn(tree.children)[k].type = "listItem"
       /\ nodesIn(tree.children)[k].children # <<>>
       /\ nodesIn(tree.children)[k].children[1].type = "text"

\* The list [built-in paragraph unwrap, t1, ..., tn] of a call.
transformList == [i \in 1..(Len(options.transforms) + 1) |-> i - 1]

isPrefix(p, q) == Len(p) <= Len(q) /\ SubSeq(q, 1, Len(p)) = p

\* The transform invoked last threw.
lastThrew ==
  /\ invoked # <<>>
  /\ invoked[Len(invoked)] > 0
  /\ options.transforms[invoked[Len(invoked)]] = "throws"

\* C13: the transforms invoked by one fromDocs call are a prefix of
\* [built-in paragraph unwrap, t1, ..., tn], in that order; the prefix is the
\* whole list unless a transform throws, and then no tree is returned.
C13_TransformOrder ==
  /\ isPrefix(invoked, transformList)
  /\ pc = "done" => invoked = transformList
  /\ lastThrew => (pc = "failed" /\ tree = NoTree)

\* The offsets at which the document writes a comment opener: `/**`, and
\* `/*` as well when single is TRUE.
openersOf(doc, single) ==
  {o \in 0..(Len(doc) - 2) :
     /\ doc[o + 1] = "/" /\ doc[o + 2] = "*"
     /\ (single \/ at(doc, o + 3) = "*")}

insideBefore(ts, i) ==
  \E j \in 1..(i - 1) :
    /\ ts[j].kind = "opener"
    /\ \A k \in (j + 1)..(i - 1) : ts[k].kind # "closer"

\* C15: the lexer decides at each position by the rule order opener, tag,
\* typeExpression, closer, delimiter, whitespace, markdown: every token is
\* the match of the first applicable rule that matches where the token
\* starts, so no rule is applied where a rule before it applies and matches.
C15_FirstRuleWins ==
  \A i \in 1..Len(tokens) :
    LET r == firstRule(slice(document, tokens[i].start.offset),
                       options.multiline, insideBefore(tokens, i), 1)
    IN /\ r # 0
       /\ rules[r].kind = tokens[i].kind
       /\ Len(tokens[i].text)
            = peekMatch(rules[r].kind, slice(document, tokens[i].start.offset),
                        options.multiline)

\* C16: the inside-comment flag is false at the start, true from an opener
\* token on and false again from a closer token on; outside a comment only
\* the opener rule fires, so every token that is not an opener (tag,
\* typeExpression, closer, markdown) comes after an opener with no closer
\* in between, and text outside comments gives no token.
C16_InsideFlag ==
  /\ comment = insideBefore(tokens, Len(tokens) + 1)
  /\ \A i \in 1..Len(tokens) :
       tokens[i].kind # "opener" => insideBefore(tokens, i)

\* The lexer went through a comment and then over text outside it: the last
\* token is a closer and written text follows it to the end of the document.
C16_Witness ==
  /\ pc = "parse"
  /\ tokens # <<>>
  /\ tokens[Len(tokens)].kind = "closer"
  /\ ~comment
  /\ \E o \in (tokens[Len(tokens)].end.offset + 1)..Len(document) :
       document[o] = "@"

\* C17: for every document, the empty one too, what the lexer returns is a
\* chain of tokens in source order (each token's `next` is the token entered
\* right after it, which the sequence `tokens` is) whose last token is the
\* one and only eof token, of zero width.
C17_EofTerminated ==
  pc # "lex" =>
    /\ tokens # <<>>
    /\ tokens[Len(tokens)].kind = "eof"
    /\ tokens[Len(tokens)].text = <<>>
    /\ tokens[Len(tokens)].start = tokens[Len(tokens)].end
    /\ \A i \in 1..(Len(tokens) - 1) :
         /\ tokens[i].kind # "eof"
         /\ tokens[i].end.offset <= tokens[i + 1].start.offset

\* ---------------------------------------------------------------------
\* Reader: the cursor over the document.

Null == "null"

MaxRead == 2

MaxReaderLen == 3

\* `this.document[i] ?? null`: the character at index i, null where the
\* document has none.
charAt(doc, i) == IF i >= 0 /\ i < Len(doc) THEN doc[i + 1] ELSE Null

\* Reader.peek(k).
peek(doc, position, k) == charAt(doc, position + k)

\* Reader.char.
char(doc, position) == peek(doc, position, 0)

\* Reader.eof.
eof(doc, position) == position >= Len(doc)

\* Reader.read(k): `this.document[this.position += k] ?? null`.
read(doc, position, k) ==
  [position |-> position + k, char |-> charAt(doc, position + k)]

\* String.prototype.slice(i): a negative i counts from the end.
sliceFrom(doc, i) ==
  IF i < 0 THEN slice(doc, Max(Len(doc) + i, 0)) ELSE slice(doc, i)

ReaderDocs == SeqsUpTo({"a", "*", "/"}, MaxReaderLen)

ReaderInit ==
  /\ DocIdle
  /\ document \in ReaderDocs
  /\ whole = document
  /\ from = DefaultFrom
  /\ op = "new"
  /\ argOffset = 0
  /\ argFrac = FALSE
  /\ argPoint = NoPoint
  /\ ret = 0

\* reader.read(k), the position kept within MaxRead of the document.
ReaderRead ==
  /\ \E k \in (0 - MaxRead)..MaxRead :
       /\ index + k \in (0 - MaxRead)..(Len(document) + MaxRead)
       /\ \E r \in {read(document, index, k)} :
            /\ index' = r.position
            /\ ret' = r.char
       /\ argOffset' = k
  /\ op' = "read"
  /\ UNCHANGED <<document, from, whole, argFrac, argPoint, options, comment,
                 tokens, pc, tree, match, reader, cursor, invoked>>

\* reader.peek(k).
ReaderPeek ==
  /\ \E k \in (0 - MaxRead)..MaxRead :
       /\ argOffset' = k
       /\ ret' = peek(document, index, k)
  /\ op' = "peek"
  /\ UNCHANGED <<document, from, whole, argFrac, argPoint, docVars>>

\* reader.peekMatch(test), the test being a rule of the lexer: the length
\* of the match, 0 for null.
ReaderPeekMatch ==
  /\ \E r \in 1..Len(rules) :
       /\ argOffset' = r
       /\ ret' = peekMatch(rules[r].kind, sliceFrom(document, index), FALSE)
  /\ op' = "peekMatch"
  /\ UNCHANGED <<document, from, whole, argFrac, argPoint, docVars>>

\* reader.char.
ReaderChar ==
  /\ op' = "char"
  /\ argOffset' = 0
  /\ ret' = char(document, index)
  /\ UNCHANGED <<document, from, whole, argFrac, argPoint, docVars>>

\* reader.eof.
ReaderEofGet ==
  /\ op' = "eof"
  /\ argOffset' = 0
  /\ ret' = eof(document, index)
  /\ UNCHANGED <<document, from, whole, argFrac, argPoint, docVars>>

\* reader.index.
ReaderIndex ==
  /\ op' = "index"
  /\ argOffset' = 0
  /\ ret' = index
  /\ UNCHANGED <<document, from, whole, argFrac, argPoint, docVars>>

ReaderNext ==
  \/ ReaderRead
  \/ ReaderPeek
  \/ ReaderPeekMatch
  \/ ReaderChar
  \/ ReaderEofGet
  \/ ReaderIndex

ReaderSpec == ReaderInit /\ [][ReaderNext]_vars

\* C18: whatever reads were made, with k positive, zero or negative, the
\* index is within [0, length of the document]; a read returns the
\* character at the new index, null when the new index is the end of the
\* document; peek, peekMatch, char, eof and index leave the index alone.
C18_ReadClamped ==
  [][/\ index' \in 0..Len(document)
     /\ op' = "read" =>
          ret' = IF index' = Len(document) THEN Null ELSE document[index' + 1]
     /\ op' # "read" => index' = index]_vars

\* C19: the name of a blockTag is the text of its tag token without the
\* leading `@`, and its field `tag` is the whole text of the tag token.
C19_TagName ==
  built =>
    \A k \in 1..Len(blockTagsIn(tree.children)) :
      LET b == blockTagsIn(tree.children)[k]
          i == nthTag(tokens, k)
      IN /\ b.name = Tail(tokens[i].text)
         /\ "tag" \in DOMAIN b
         /\ b.tag = tokens[i].text

\* ---------------------------------------------------------------------
\* Type expressions: block tags whose type holds `*` and continuation
\* lines.

MaxType == 3

TypePieces ==
  { <<"n">>, <<"*">>, <<" ">>, <<"\n", " ", "*", " ">> }

TypeDocs ==
  { Opener \o <<"@", "p", " ", "{">> \o concat(ps) \o <<"}", " ", "a", "b">>
      \o Closer :
      ps \in SeqsUpTo(TypePieces, MaxType) }

TypeInit ==
  /\ document \in TypeDocs
  /\ whole = document
  /\ from = DefaultFrom
  /\ op = "new"
  /\ argOffset = 0
  /\ argFrac = FALSE
  /\ argPoint = NoPoint
  /\ ret = 0
  /\ options = [multiline |-> FALSE, codeblocks |-> Unset, transforms |-> <<>>]
  /\ match = 0
  /\ reader = 0
  /\ cursor = NoCursor
  /\ invoked = <<>>
  /\ index = 0
  /\ comment = FALSE
  /\ tokens = <<>>
  /\ pc = "lex"
  /\ tree = NoTree

TypeSpec == TypeInit /\ [][DocNext]_vars

\* The text s without the marker (optional whitespace, `*`, up to two
\* spaces or tabs) at the start of each of its continuation lines, and of
\* its first line too when `first`.
unmarked(s, first) ==
  LET ls == linesOf(s, FALSE) IN
  joinLines([k \in 1..Len(ls) |->
               [text |-> IF k = 1 /\ ~first THEN ls[k].text
                         ELSE SubSeq(ls[k].text, decoration(ls[k].text) + 1,
                                     Len(ls[k].text)),
                eol  |-> ls[k].eol]])

\* C20: the value of a typeExpression is the text between the outer braces
\* of its token without the markers that lead its continuation lines; every
\* other character, a `*` that leads no line too, is kept as it is.
C20_TypeValue ==
  built =>
    \A k \in 1..Len(blockTagsIn(tree.children)) :
      LET b == blockTagsIn(tree.children)[k]
          i == nthTag(tokens, k)
      IN kindAt(tokens, i + 1) = "typeExpression" =>
           /\ b.children # <<>>
           /\ b.children[1].type = "typeExpression"
           /\ \E first \in BOOLEAN :
                b.children[1].value
                  = unmarked(SubSeq(tokens[i + 1].text, 2,
                                    Len(tokens[i + 1].text) - 1), first)

\* ---------------------------------------------------------------------
\* Containers: comments with a description and block tags, with and
\* without a type expression and text.

MaxPosition == 4

PositionPieces ==
  { <<"a", "b">>,
    <<"\n", " ", "*", " ", "@", "p", " ">>,
    <<"{", "n", "}", " ">>,
    Closer \o <<"\n">> \o Opener }

PositionDocs ==
  { Opener \o concat(ps) \o post :
      ps \in SeqsUpTo(PositionPieces, MaxPosition), post \in {<<>>, Closer} }

PositionInit ==
  /\ document \in PositionDocs
  /\ whole = document
  /\ from = DefaultFrom
  /\ op = "new"
  /\ argOffset = 0
  /\ argFrac = FALSE
  /\ argPoint = NoPoint
  /\ ret = 0
  /\ options = [multiline |-> FALSE, codeblocks |-> Unset, transforms |-> <<>>]
  /\ match = 0
  /\ reader = 0
  /\ cursor = NoCursor
  /\ invoked = <<>>
  /\ index = 0
  /\ comment = FALSE
  /\ tokens = <<>>
  /\ pc = "lex"
  /\ tree = NoTree

PositionSpec == PositionInit /\ [][DocNext]_vars

\* Index of the k-th token of a kind.
nthOf(ts, kind, k) ==
  CHOOSE i \in 1..Len(ts) :
    /\ ts[i].kind = kind
    /\ Cardinality({j \in 1..i : ts[j].kind = kind}) = k

\* The node n lies inside the span of the node c.
inside(n, c) ==
  /\ c.position.start.offset <= n.position.start.offset
  /\ n.position.start.offset <= n.position.end.offset
  /\ n.position.end.offset <= c.position.end.offset

\* C21: a comment spans opener.start to closer.end, a description its
\* markdown token, a blockTag tag.start to the end of its markdown token,
\* else of its type expression, else of its tag token; so every child of a
\* comment lies inside the comment, the children are in source order and a
\* description comes first.
C21_ContainerSpans ==
  built =>
    /\ \A k \in 1..Len(tree.children) :
         LET c == tree.children[k]
             o == nthOf(tokens, "opener", k)
         IN /\ c.position.start = tokens[o].start
            /\ c.position.end = tokens[nthOf(tokens, "closer", k)].end
            /\ \A j \in 1..Len(c.children) :
                 /\ inside(c.children[j], c)
                 /\ c.children[j].type = "description" =>
                      /\ j = 1
                      /\ c.children[j].position.start = tokens[o + 1].start
                      /\ c.children[j].position.end = tokens[o + 1].end
                 /\ j > 1 => c.children[j - 1].position.end.offset
                               <= c.children[j].position.start.offset
    /\ \A k \in 1..Len(blockTagsIn(tree.children)) :
         LET b == blockTagsIn(tree.children)[k]
             i == nthTag(tokens, k)
         IN /\ b.position.start = tokens[i].start
            /\ b.position.end =
                 IF textOf(tokens, i) # 0 THEN tokens[textOf(tokens, i)].end
                 ELSE IF kindAt(tokens, i + 1) = "typeExpression"
                 THEN tokens[i + 1].end
                 ELSE tokens[i].end

\* A comment with a description and a block tag with its type and text has
\* been built.
C21_Witness ==
  /\ pc = "done"
  /\ \E k \in 1..Len(tree.children) :
       LET c == tree.children[k] IN
       /\ Len(c.children) = 2
       /\ c.children[1].type = "description"
       /\ c.children[2].type = "blockTag"
       /\ Len(c.children[2].children) = 2
       /\ c.children[2].children[1].type = "typeExpression"

\* ---------------------------------------------------------------------
\* Breaks: descriptions with hard breaks (a backslash before a line
\* ending) and blank lines.

MaxBreak == 4

BreakPieces ==
  { <<"a", "b">>,
    <<"\\">>,
    <<"\n", " ", "*", " ", "c", "d">>,
    <<"\n", " ", "*">>,
    <<"\n">>,
    <<"\r", "\n", " ", "*", " ", "c", "d">> }

BreakDocs ==
  { Opener \o concat(ps) \o Closer : ps \in SeqsUpTo(BreakPieces, MaxBreak) }

BreakInit ==
  /\ document \in BreakDocs
  /\ whole = document
  /\ from = DefaultFrom
  /\ op = "new"
  /\ argOffset = 0
  /\ argFrac = FALSE
  /\ argPoint = NoPoint
  /\ ret = 0
  /\ options = [multiline |-> FALSE, codeblocks |-> Unset, transforms |-> <<>>]
  /\ match = 0
  /\ reader = 0
  /\ cursor = NoCursor
  /\ invoked = <<>>
  /\ index = 0
  /\ comment = FALSE
  /\ tokens = <<>>
  /\ pc = "lex"
  /\ tree = NoTree

BreakSpec == BreakInit /\ [][DocNext]_vars

\* The break nodes of the tree that the markdown engine made: the hard
\* breaks and the breaks of blank lines.
breaksIn(t) ==
  SelectSeq(nodesIn(t.children), LAMBDA n : n.type = "break" /\ (n.hard \/ n.blank))

\* The end of the break b is at column c, on its start line plus the lines
\* it spanned (none for a hard break, one for the line ending of a blank
\* line), at the offset of that line and column.
breakEndsAt(b, c) ==
  /\ b.position.end.column = c
  /\ b.position.end.line = b.position.start.line + (IF b.hard THEN 0 ELSE 1)
  /\ b.position.end.offset =
       offset(document, DefaultFrom,
              [line |-> b.position.end.line, column |-> c])

\* C22: the remapped end of a break is at column 1, of a hard break at
\* column 2; its line is the remapped start line plus the lines the node
\* spanned and its offset is computed from that line and column.
C22_BreakEnd ==
  built =>
    \A k \in 1..Len(breaksIn(tree)) :
      breakEndsAt(breaksIn(tree)[k], IF breaksIn(tree)[k].hard THEN 2 ELSE 1)

\* C22, amended: the remapped end of a break is at column 1, of a hard
\* break at the column after its remapped start column; line and offset as
\* in C22.
C22_BreakEndAfterStart ==
  built =>
    \A k \in 1..Len(breaksIn(tree)) :
      breakEndsAt(breaksIn(tree)[k],
                  IF breaksIn(tree)[k].hard
                  THEN breaksIn(tree)[k].position.start.column + 1 ELSE 1)

\* A tree with a hard break and the break of a blank line has been built.
C22_Witness ==
  /\ pc = "done"
  /\ \E k \in 1..Len(breaksIn(tree)) : breaksIn(tree)[k].hard
  /\ \E k \in 1..Len(breaksIn(tree)) : breaksIn(tree)[k].blank

\* The lists of siblings of the tree: the children of each of its nodes.
siblingsIn(t) ==
  <<t.children>>
    \o [k \in 1..Len(nodesIn(t.children)) |-> nodesIn(t.children)[k].children]

\* A break the blank-line pass made: it has neither mark.
synthetic(n) == n.type = "break" /\ ~n.blank /\ ~n.hard

\* The synthetic break s spans the one line ending character before the
\* line of the blank break b.
spansLineEndingBefore(s, b) ==
  /\ s.position.start.offset = b.position.start.offset - b.position.start.column
  /\ s.position.end.offset = s.position.start.offset + 1
  /\ s.position.start = point(document, DefaultFrom, s.position.start.offset, FALSE)
  /\ s.position.end = point(document, DefaultFrom, s.position.end.offset, FALSE)
  /\ s.position.start.offset >= 0
  /\ document[s.position.start.offset + 1] \in {"\n", "\r"}
  /\ s.position.end.line = b.position.start.line

beforeTextPass(token) ==
  insertBlankBreaks(transformPositions(fromMarkdown(uncomment(token.text)),
                                       token, columnMap(token), FALSE),
                    token)

\* v with a space for each line ending character.
spaced(v) ==
  [i \in 1..Len(v) |-> IF v[i] \in {"\n", "\r"} THEN " " ELSE v[i]]

\* What the text pass is to make of the k-th of the siblings ms, n being
\* what it made.
textPassed(ms, k, n) ==
  LET m == ms[k] IN
  IF m.type # "text" \/ ~hasNewline(m.value) THEN n.type = m.type
  ELSE IF k > 1 /\ ms[k - 1].type = "break" /\ ms[k - 1].hard
          /\ m.value[1] \in {"\n", "\r"}
  THEN /\ n.value = Tail(m.value)
       /\ n.position.start
            = point(document, DefaultFrom, m.position.start.offset + 1, FALSE)
       /\ n.position.end = m.position.end
  ELSE /\ n.value = spaced(m.value)
       /\ Len(n.value) = Len(m.value)
       /\ n.position.start = m.position.start
       /\ n.position.end =
            IF m.value[Len(m.value)] \in {"\n", "\r"}
            THEN [line   |-> m.position.end.line,
                  column |-> 1,
                  offset |-> offset(document, DefaultFrom,
                                    [line |-> m.position.end.line, column |-> 1])]
            ELSE m.position.end

\* C24: in the text pass a text node right after a hard break that starts
\* with a newline loses that newline and starts one character further on;
\* every other text node has a space for each "\n" and "\r" in it, its
\* length unchanged, and when it ended with a newline its end is at column
\* 1 of its end line, the offset computed again.
C24_TextPass ==
  pc = "done" =>
    \A k \in 1..Len(descriptionsIn(tree.children)) :
      LET d == descriptionsIn(tree.children)[k]
          before == beforeTextPass(tokenOf(d))
      IN /\ Len(before) = Len(d.children)
         /\ \A j \in 1..Len(before) :
              /\ Len(before[j].children) = Len(d.children[j].children)
              /\ \A c \in 1..Len(before[j].children) :
                   textPassed(before[j].children, c, d.children[j].children[c])

\* ---------------------------------------------------------------------
\* Escapes: one-line descriptions with inline tags, braces and
\* backslashes.

MaxEscape == 4

EscapePieces ==
  { <<"{", "@", "l", " ", "F">>,
    <<"\\">>,
    <<"}">>,
    <<"{">>,
    <<"a", "b">> }

EscapeDocs ==
  { Opener \o concat(ps) \o Closer : ps \in SeqsUpTo(EscapePieces, MaxEscape) }

EscapeInit ==
  /\ document \in EscapeDocs
  /\ whole = document
  /\ from = DefaultFrom
  /\ op = "new"
  /\ argOffset = 0
  /\ argFrac = FALSE
  /\ argPoint = NoPoint
  /\ ret = 0
  /\ options = [multiline |-> FALSE, codeblocks |-> Unset, transforms |-> <<>>]
  /\ match = 0
  /\ reader = 0
  /\ cursor = NoCursor
  /\ invoked = <<>>
  /\ index = 0
  /\ comment = FALSE
  /\ tokens = <<>>
  /\ pc = "lex"
  /\ tree = NoTree

EscapeSpec == EscapeInit /\ [][DocNext]_vars

\* C25: an inline tag starts at a `{` that no backslash precedes and that
\* an `@` follows at once, and ends at the first `}` that no backslash
\* precedes: an escaped `}` inside the tag does not end it.
C25_InlineTagBounds ==
  built =>
    \A k \in 1..Len(inlineTagsIn(tree)) :
      LET s == inlineTagsIn(tree)[k].position.start.offset
          e == inlineTagsIn(tree)[k].position.end.offset
      IN /\ at(document, s + 1) = "{"
         /\ at(document, s) # "\\"
         /\ at(document, s + 2) = "@"
         /\ at(document, e) = "}"
         /\ at(document, e - 1) # "\\"
         /\ \A o \in (s + 3)..(e - 1) :
              document[o] = "}" => document[o - 1] = "\\"

\* C26: every turn of the lexer's loop over the document moves the cursor
\* forward by at least one character, and the cursor never moves backwards
\* nor past the end of the document (so the loop ends after at most
\* Len(document) turns).
C26_LexerAdvances ==
  [][/\ index' >= index
     /\ index' <= Len(document)
     /\ (pc = "lex" /\ pc' = "lex") => index' > index]_vars

validPoint(p) == p.line >= 1 /\ p.column >= 1 /\ p.offset >= 0

\* C28: every node of a returned tree has a position whose start and end
\* are points of the document (line and column at least 1, offset at least
\* 0, never the -1 of a failed conversion) and whose start is not after its
\* end.
C28_ValidPositions ==
  pc = "done" =>
    \A k \in 1..Len(nodesIn(tree.children)) :
      LET n == nodesIn(tree.children)[k] IN
      /\ validPoint(n.position.start)
      /\ validPoint(n.position.end)
      /\ n.position.start.offset <= n.position.end.offset

\* The nodes markdown makes of the text of the markdown token t.
markdownNodes(t) == nodesIn(fromMarkdown(uncomment(t.text)))

\* C29: the inlineTag tokenizer, once entered at a `{@`, leaves its inside
\* state at a `}` or fails; it does not consume the end of the text, so
\* no inlineTag token is left open: whatever markdown cannot make a node of
\* is a closed `{@...}`, never a `{@` that runs to the end of the text.
C29_InsideLeft ==
  \A i \in 1..Len(tokens) :
    tokens[i].kind = "markdown" =>
      \E ns \in {markdownNodes(tokens[i])} :
        \A k \in 1..Len(ns) :
          ns[k].type = "error" => ns[k].value[Len(ns[k].value)] = "}"

\* The markdown token t holds a `{@` that no `}` closes.
unclosed(t) ==
  \E ns \in {markdownNodes(t)} :
    \E k \in 1..Len(ns) :
      ns[k].type = "error" /\ ns[k].value[Len(ns[k].value)] # "}"

\* C30: fromDocs completes for every docblock whose inline tags are closed
\* by a `}`, one with a name and no value (`{@l}`) included: the exit
\* handler of inlineTag finds a name and a value in whatever the tokenizer
\* accepted, so a parse fails only where a `{@` is left unclosed.
C30_ClosedTagsComplete ==
  pc = "failed" =>
    \E i \in 1..Len(tokens) : tokens[i].kind = "markdown" /\ unclosed(tokens[i])

====
